---- MODULE Spec2Model ----
(***************************************************************************)
(* Model of claude-memory-context:                                         *)
(*   - memory-context-script.js: formatMemoryContext and the marker splice *)
(*     of updateProjectInstructions (GET project, splice, PATCH project);  *)
(*   - mcp-project-knowledge-server.py: ClaudeProjectKnowledgeManager over *)
(*     the four SQLite tables notes, project_knowledge,                    *)
(*     project_instructions and project_context.                           *)
(* Text is modelled as a sequence of tokens: a token is one character, or  *)
(* one fixed literal of the source (a marker, a fixed phrase).             *)
(***************************************************************************)
EXTENDS Integers, Sequences, FiniteSets, TLC

VARIABLES
    \* ---- memory-context-script.js ----
    remotePrompt,     \* project.system_prompt held by the remote project
    memoryPrefix,     \* argv.memoryPrefix
    memorySummary,    \* { recentMemories, importantMemories } of getMemorySummary
    fetchedPrompt,    \* systemPrompt as read by the GET of the last run
    okRuns,           \* number of runs whose PATCH succeeded
    exitCode,         \* process.exit code of the last run (NotExited before any)
    variant,          \* "api": memory-context-script.js, "file": the file-output variant
    actualMode,       \* "http" or "cli", after the resolution of --mode
    pc,               \* position of main(): main, summarized, formatted, fetched, exited
    gotSummary,       \* what getMemorySummary returned to main (JSON values)
    contextText,      \* what formatMemoryContext returned (NoText before it returns)
    sent,             \* requests sent to the project API in this run, in order
    stdout,           \* lines written by console.log that the claims refer to
    stderr,           \* lines written by console.error
    file,             \* contents of memory-context.txt in the working directory
    serverProcess,    \* the memory server spawned by the file-output variant
    runs,             \* number of runs started
    \* ---- mcp-project-knowledge-server.py ----
    project_name,     \* os.environ.get("CLAUDE_PROJECT_NAME") (None when unset)
    environ,          \* CLAUDE_PROJECT_ID and ANTHROPIC_API_KEY (None when unset)
    writers,          \* per server process: its position inside update_instruction
    raceCalls,        \* number of update_instruction calls started by those processes
    notes,            \* rows of table notes, in rowid order
    project_knowledge,    \* rows of table project_knowledge, in rowid order
    project_instructions, \* rows of table project_instructions, in rowid order
    project_context,      \* rows of table project_context, in rowid order
    sqlite_sequence,  \* AUTOINCREMENT high-water mark per table
    clock,            \* CURRENT_TIMESTAMP (whole seconds)
    ret,              \* outcome of the last store call as seen by its caller
    last_add,         \* entry passed to the last add_knowledge that returned
    last_instr,       \* per section: the last update_instruction that returned
    last_ctx          \* per key: the last update_context that returned

flowVars == <<variant, actualMode, pc, gotSummary, contextText, sent, stdout, stderr, file,
              serverProcess, runs>>
scriptVars == <<remotePrompt, memoryPrefix, memorySummary, fetchedPrompt, okRuns, exitCode, flowVars>>
storeVars  == <<project_name, environ, writers, raceCalls, notes, project_knowledge, project_instructions,
                project_context, sqlite_sequence, clock, ret, last_add, last_instr, last_ctx>>
vars == <<scriptVars, storeVars>>

None == "None"
NotExited == -1

\* neither CLAUDE_PROJECT_ID nor ANTHROPIC_API_KEY is set
NoEnviron == [CLAUDE_PROJECT_ID |-> None, ANTHROPIC_API_KEY |-> None]

\* the server processes that share one database file
Writers == {"w1", "w2"}
NoInstruction == [section |-> None, content |-> None, priority |-> 0]
IdleWriter == [pc |-> "idle", instruction |-> NoInstruction, existing |-> FALSE, at |-> 0]

\* no process is inside update_instruction
WritersIdle ==
    /\ writers = [w \in Writers |-> IdleWriter]
    /\ raceCalls = 0

(***************************************************************************)
(* Generic sequence helpers                                                *)
(***************************************************************************)
SeqsUpTo(A, n) == UNION {[1..k -> A] : k \in 0..n}

RECURSIVE Flatten(_)
Flatten(ss) == IF ss = <<>> THEN <<>> ELSE Head(ss) \o Flatten(Tail(ss))

RECURSIVE Join(_, _)
\* Array.prototype.join / str.join over token sequences
Join(ss, sep) ==
    IF ss = <<>> THEN <<>>
    ELSE IF Len(ss) = 1 THEN Head(ss)
    ELSE Head(ss) \o sep \o Join(Tail(ss), sep)

IsPrefix(p, s) == Len(p) <= Len(s) /\ SubSeq(s, 1, Len(p)) = p
IsSuffix(p, s) == Len(p) <= Len(s) /\ SubSeq(s, Len(s) - Len(p) + 1, Len(s)) = p
Count(s, tok) == Cardinality({i \in 1..Len(s) : s[i] = tok})

(***************************************************************************)
(* memory-context-script.js                                                *)
(***************************************************************************)
START == "<!-- MEMORY CONTEXT START -->"
END   == "<!-- MEMORY CONTEXT END -->"
NL    == "\n"

TruncLen  == 100
MaxTopics == 10

TopicsLead   == "\n\nRecent topics you remember include: "
ImportantHdr == "\n\nImportant long-term memories include:"
ItemLead     == "\n- "
Ellipsis     == "..."
NoContent    == "No content"
UsageHint    == "\n\nIf the user mentions any of these topics or needs additional information, you can help them retrieve more from their memory by suggesting they ask about specific topics or use the memory search functions."

RECURSIVE Dedupe(_)
\* [...new Set(xs)]: first occurrences, in order
Dedupe(xs) ==
    IF xs = <<>> THEN <<>>
    ELSE LET r == Dedupe(SubSeq(xs, 1, Len(xs) - 1))
             x == xs[Len(xs)]
         IN IF \E i \in 1..Len(r) : r[i] = x THEN r ELSE Append(r, x)

recentTopics(recentMemories) ==
    LET tags == Flatten([i \in 1..Len(recentMemories) |-> recentMemories[i].tags])
        kept == SelectSeq(tags, LAMBDA t : t # "")
        uniq == Dedupe(kept)
    IN SubSeq(uniq, 1, IF Len(uniq) < MaxTopics THEN Len(uniq) ELSE MaxTopics)

TruncateContentFrom100(content) ==
    IF Len(content) >= TruncLen THEN Append(SubSeq(content, 1, TruncLen), Ellipsis)
    ELSE IF content = <<>> THEN <<NoContent>>
    ELSE content

\* memory.content?.length > 100 ? memory.content.substring(0, 100) + '...'
\*                               : (memory.content || 'No content')
TruncateContent(content) ==
    IF Len(content) > TruncLen THEN Append(SubSeq(content, 1, TruncLen), Ellipsis)
    ELSE IF content = <<>> THEN <<NoContent>>
    ELSE content

formatMemoryContext(prefix, summary) ==
    LET topics == recentTopics(summary.recentMemories)
        imps   == summary.importantMemories
        topicsPart == IF Len(topics) > 0
                      THEN <<TopicsLead>> \o Join([i \in 1..Len(topics) |-> <<topics[i]>>], <<", ">>) \o <<".">>
                      ELSE <<>>
        impPart == IF Len(imps) > 0
                   THEN <<ImportantHdr>> \o
                        Flatten([i \in 1..Len(imps) |-> <<ItemLead>> \o TruncateContent(imps[i].content)])
                   ELSE <<>>
    IN prefix \o topicsPart \o impPart \o <<UsageHint>>

\* least index >= from holding tok, 0 when there is none
IndexFrom(s, tok, from) ==
    IF \E i \in from..Len(s) : s[i] = tok
    THEN CHOOSE i \in from..Len(s) : s[i] = tok /\ \A j \in from..(i - 1) : s[j] # tok
    ELSE 0

\* /START[\s\S]*?END/ : leftmost START from which a match exists ...
MatchStart(doc) ==
    LET cands == {p \in 1..Len(doc) : doc[p] = START /\ IndexFrom(doc, END, p + 1) # 0}
    IN IF cands = {} THEN 0 ELSE CHOOSE p \in cands : \A q \in cands : p <= q

MatchEndGreedy(doc) ==
    LET p == MatchStart(doc)
    IN CHOOSE q \in (p + 1)..Len(doc) : doc[q] = END /\ \A r \in (q + 1)..Len(doc) : doc[r] # END

\* ... extended lazily ([\s\S]*?) to the nearest END
MatchEnd(doc) == IndexFrom(doc, END, MatchStart(doc) + 1)

memorySectionTest(doc) == MatchStart(doc) # 0

newMemorySection(memoryContext) == <<START, NL>> \o memoryContext \o <<NL, END>>

\* the characters U+0060 and U+0027, named because the two quote characters
\* cannot be written inside a string literal here
Backtick   == "BACKTICK"
Apostrophe == "APOSTROPHE"

RECURSIVE GetSubstitution(_, _, _, _)
\* String.prototype.replace with a string replacement: $$, $&, $ Backtick and
\* $ Apostrophe are expanded; the pattern has no capture groups, so $n and $<name> stay literal.
\* The text before the next "$" is copied in one step.
GetSubstitution(matched, before, after, repl) ==
    LET d == IndexFrom(repl, "$", 1)
    IN IF d = 0 \/ d = Len(repl) THEN repl
       ELSE LET plain == SubSeq(repl, 1, d - 1)
                rest  == SubSeq(repl, d + 2, Len(repl))
            IN CASE repl[d + 1] = "$" -> plain \o <<"$">> \o GetSubstitution(matched, before, after, rest)
                 [] repl[d + 1] = "&" -> plain \o matched \o GetSubstitution(matched, before, after, rest)
                 [] repl[d + 1] = Backtick -> plain \o before \o GetSubstitution(matched, before, after, rest)
                 [] repl[d + 1] = Apostrophe -> plain \o after \o GetSubstitution(matched, before, after, rest)
                 [] OTHER -> plain \o <<"$">> \o
                             GetSubstitution(matched, before, after, SubSeq(repl, d + 1, Len(repl)))

StringReplaceDropTail(doc, repl) ==
    LET p == MatchStart(doc)
        q == MatchEnd(doc)
    IN SubSeq(doc, 1, p - 1) \o
       GetSubstitution(SubSeq(doc, p, q), SubSeq(doc, 1, p - 1), SubSeq(doc, q + 1, Len(doc)), repl)

\* systemPrompt.replace(memorySection, newMemorySection), when the test succeeded
StringReplace(doc, repl) ==
    LET p == MatchStart(doc)
        q == MatchEnd(doc)
        before == SubSeq(doc, 1, p - 1)
        after  == SubSeq(doc, q + 1, Len(doc))
    IN before \o GetSubstitution(SubSeq(doc, p, q), before, after, repl) \o after

AppendSectionOneNewline(doc, section) == doc \o <<NL>> \o section

\* systemPrompt += two newlines and newMemorySection
AppendSection(doc, section) == doc \o <<NL, NL>> \o section

SpliceSystemPrompt(systemPrompt, memoryContext) ==
    IF memorySectionTest(systemPrompt)
    THEN StringReplace(systemPrompt, newMemorySection(memoryContext))
    ELSE AppendSection(systemPrompt, newMemorySection(memoryContext))

memoryContext == formatMemoryContext(memoryPrefix, memorySummary)

\* ---- bounds and input sets of the script specification ----
MaxDocLen == 4
MaxRuns   == 2

DocAlphabet    == {START, END, "x"}
Documents == SeqsUpTo(DocAlphabet, MaxDocLen)
\* values of --memory-prefix: plain text, each replacement pattern, a marker
Prefixes ==
    { <<>>, <<"x">>, <<"$">>, <<"$", "$">>, <<"$", "&">>, <<"$", Backtick>>,
      <<"$", Apostrophe>>, <<START>>, <<END>> }
MemorySummaries ==
    { [recentMemories |-> <<>>, importantMemories |-> <<>>],
      [recentMemories |-> <<[content |-> <<"x">>, tags |-> <<"t1", "", "t1", "t2">>]>>,
       importantMemories |-> <<[content |-> <<"$", "$">>, tags |-> <<>>]>>],
      [recentMemories |-> <<>>,
       importantMemories |-> <<[content |-> <<>>, tags |-> <<>>], [content |-> <<END>>, tags |-> <<>>]>>] }

StoreIdle ==
    /\ project_name = None
    /\ environ = NoEnviron
    /\ WritersIdle
    /\ notes = <<>>
    /\ project_knowledge = <<>>
    /\ project_instructions = <<>>
    /\ project_context = <<>>
    /\ sqlite_sequence = [t \in {"notes", "project_knowledge", "project_instructions", "project_context"} |-> 0]
    /\ clock = 0
    /\ ret = [op |-> "none"]
    /\ last_add = <<>>
    /\ last_instr = {}
    /\ last_ctx = {}

\* JSON values of a backend reply, as far as the script tells them apart
JArray(items) == [type |-> "array", items |-> items]
JUndefined == [type |-> "undefined", items |-> <<>>]
\* an object that is no array, and a non-empty string
JObject    == [type |-> "object", items |-> <<>>]
JString    == [type |-> "string", items |-> <<>>]

\* { recentMemories: [], importantMemories: [] }
EmptySummary == [recentMemories |-> JArray(<<>>), importantMemories |-> JArray(<<>>)]

\* contextText before formatMemoryContext returned (a returned text is never empty)
NoText == <<>>

\* the staged run is not started
FlowIdle ==
    /\ variant = "api"
    /\ actualMode = "http"
    /\ pc = "main"
    /\ gotSummary = EmptySummary
    /\ contextText = NoText
    /\ sent = <<>>
    /\ stdout = <<>>
    /\ stderr = <<>>
    /\ file = <<>>
    /\ serverProcess = "none"
    /\ runs = 0

ScriptInit ==
    /\ remotePrompt \in Documents
    /\ memoryPrefix \in Prefixes
    /\ memorySummary \in MemorySummaries
    /\ fetchedPrompt = <<>>
    /\ okRuns = 0
    /\ exitCode = NotExited
    /\ FlowIdle

\* main(): getMemorySummary, formatMemoryContext, updateProjectInstructions, exit.
\* The GET fails: the catch returns false, nothing is sent.
RunGetFails ==
    /\ okRuns < MaxRuns
    /\ exitCode' = 1
    /\ UNCHANGED <<remotePrompt, memoryPrefix, memorySummary, fetchedPrompt, okRuns>>

\* The GET succeeds, the PATCH fails: the remote prompt keeps its value.
RunPatchFails ==
    /\ okRuns < MaxRuns
    /\ fetchedPrompt' = remotePrompt
    /\ exitCode' = 1
    /\ UNCHANGED <<remotePrompt, memoryPrefix, memorySummary, okRuns>>

\* GET and PATCH succeed: the spliced prompt becomes the remote prompt.
RunSucceeds ==
    /\ okRuns < MaxRuns
    /\ fetchedPrompt' = remotePrompt
    /\ remotePrompt' = SpliceSystemPrompt(remotePrompt, memoryContext)
    /\ okRuns' = okRuns + 1
    /\ exitCode' = 0
    /\ UNCHANGED <<memoryPrefix, memorySummary>>

ScriptNext ==
    /\ (RunGetFails \/ RunPatchFails \/ RunSucceeds)
    /\ UNCHANGED flowVars
    /\ UNCHANGED storeVars

\* the script runs against its remote project; the store is not involved
ScriptSpecInit == ScriptInit /\ StoreIdle

SpecScript == ScriptSpecInit /\ [][ScriptNext]_vars

ScriptIdle ==
    /\ remotePrompt = <<>>
    /\ memoryPrefix = <<>>
    /\ memorySummary = [recentMemories |-> <<>>, importantMemories |-> <<>>]
    /\ fetchedPrompt = <<>>
    /\ okRuns = 0
    /\ exitCode = NotExited
    /\ FlowIdle

(***************************************************************************)
(* main() step by step: memory-context-script.js and its file-output       *)
(* variant                                                                 *)
(***************************************************************************)
\* default of --max-important-memories
MaxImportantMemories == 3

\* replies of the recall backend: the request (or the command) throws, the
\* reply has no data object, the output is no JSON, or a body with a result
Throws  == [kind |-> "throws", result |-> JUndefined]
NoData  == [kind |-> "nodata", result |-> JUndefined]
Garbage == [kind |-> "garbage", result |-> JUndefined]
Body(v) == [kind |-> "body", result |-> v]

\* response.data.result || []
OrEmptyArray(v) == IF v.type = "undefined" THEN JArray(<<>>) ELSE v

\* whether v.slice is a function
HasSlice(v) == v.type \in {"array", "string"}

\* v.slice(0, n) where it is a function (the model's strings are shorter than n)
Slice(v, n) ==
    IF v.type = "array"
    THEN JArray(SubSeq(v.items, 1, IF Len(v.items) < n THEN Len(v.items) ELSE n))
    ELSE v

\* one try block around both requests and the extraction
getMemorySummaryHttp(recentResponse, importantResponse) ==
    IF \/ recentResponse.kind # "body"
       \/ importantResponse.kind # "body"
       \/ ~HasSlice(OrEmptyArray(importantResponse.result))
    THEN [value |-> EmptySummary, caught |-> TRUE]
    ELSE [value |-> [recentMemories |-> OrEmptyArray(recentResponse.result),
                     importantMemories |-> Slice(OrEmptyArray(importantResponse.result),
                                                 MaxImportantMemories)],
          caught |-> FALSE]

\* execSync of two commands; each JSON.parse has a try block of its own, in
\* which importantMemories is assigned before slice is called
getMemorySummaryCli(recentMemoriesCmd, importantMemoriesCmd) ==
    IF recentMemoriesCmd.kind = "throws" \/ importantMemoriesCmd.kind = "throws"
    THEN [value |-> EmptySummary, caught |-> TRUE]
    ELSE LET recentMemories ==
                 IF recentMemoriesCmd.kind = "body"
                 THEN OrEmptyArray(recentMemoriesCmd.result) ELSE JArray(<<>>)
             importantMemories ==
                 IF importantMemoriesCmd.kind = "body"
                 THEN Slice(OrEmptyArray(importantMemoriesCmd.result), MaxImportantMemories)
                 ELSE JArray(<<>>)
         IN [value |-> [recentMemories |-> recentMemories,
                        importantMemories |-> importantMemories],
             caught |-> \/ recentMemoriesCmd.kind # "body"
                        \/ importantMemoriesCmd.kind # "body"
                        \/ ~HasSlice(importantMemories)]

\* file-output variant: spawn the server, wait, send both requests, kill the
\* server, extract; one try block around all of it.  alive: whether the
\* server process still exists when process.kill is called.
getMemorySummaryCliServer(recentResponse, importantResponse, alive) ==
    IF recentResponse.kind = "throws" \/ importantResponse.kind = "throws"
    THEN [value |-> EmptySummary, caught |-> TRUE, server |-> "running"]
    ELSE IF ~alive
    THEN [value |-> EmptySummary, caught |-> TRUE, server |-> "gone"]
    ELSE LET r == getMemorySummaryHttp(recentResponse, importantResponse)
         IN [value |-> r.value, caught |-> r.caught, server |-> "killed"]

\* recentMemories.flatMap and importantMemories.forEach must be functions;
\* the length of an object that is no array is undefined, and forEach is not reached
FormatThrows(s) == s.recentMemories.type # "array" \/ s.importantMemories.type = "string"

Lists(s) ==
    [recentMemories |-> s.recentMemories.items,
     importantMemories |-> IF s.importantMemories.type = "array"
                           THEN s.importantMemories.items ELSE <<>>]

\* ---- bounds and input sets of the staged run ----
MaxFlowRuns == 2

\* a content of n characters; the 100th and the later ones are told apart
Chars(n) == [i \in 1..n |-> IF i < TruncLen THEN "x" ELSE IF i = TruncLen THEN "y" ELSE "z"]
Memory(content, tags) == [content |-> content, tags |-> tags]

FlowDocuments == { <<>>, <<"x">>, <<START, "x", END>> }
FlowPrefixes  == { <<>>, <<"x">> }
RecentResults ==
    { JUndefined, JObject, JString, JArray(<<>>),
      JArray(<<Memory(<<"x">>, <<"t1", "", "t1", "t2">>)>>) }
ImportantResults ==
    { JUndefined, JObject, JString,
      JArray(<<Memory(Chars(0), <<>>), Memory(Chars(100), <<>>)>>),
      JArray(<<Memory(Chars(101), <<>>), Memory(Chars(1), <<>>)>>),
      JArray(<<Memory(Chars(150), <<>>)>>),
      JArray(<<Memory(<<"a">>, <<>>), Memory(<<"b">>, <<>>), Memory(<<"c">>, <<>>),
               Memory(<<"d">>, <<>>)>>) }
HttpReplies(results) == {Throws, NoData} \cup {Body(v) : v \in results}
CliReplies(results)  == {Throws, Garbage} \cup {Body(v) : v \in results}

FlowInit ==
    /\ remotePrompt \in FlowDocuments
    /\ memoryPrefix \in FlowPrefixes
    /\ memorySummary = [recentMemories |-> <<>>, importantMemories |-> <<>>]
    /\ fetchedPrompt = <<>>
    /\ okRuns = 0
    /\ exitCode = NotExited
    /\ variant \in {"api", "file"}
    /\ actualMode \in {"http", "cli"}
    /\ pc = "main"
    /\ gotSummary = EmptySummary
    /\ contextText = NoText
    /\ sent = <<>>
    /\ stdout = <<>>
    /\ stderr = <<>>
    /\ file = <<>>
    /\ serverProcess = "none"
    /\ runs = 1
    /\ StoreIdle

\* getMemorySummary in HTTP mode (the same in both variants)
GetMemorySummaryHttp ==
    /\ pc = "main"
    /\ actualMode = "http"
    /\ \E recentResponse \in HttpReplies(RecentResults),
          importantResponse \in HttpReplies(ImportantResults) :
         LET r == getMemorySummaryHttp(recentResponse, importantResponse)
         IN /\ gotSummary' = r.value
            /\ stderr' = IF r.caught
                         THEN Append(stderr, <<"Error querying MCP memory service">>)
                         ELSE stderr
    /\ pc' = "summarized"
    /\ UNCHANGED <<remotePrompt, memoryPrefix, memorySummary, fetchedPrompt, okRuns, exitCode,
                   variant, actualMode, contextText, sent, stdout, file, serverProcess, runs>>

\* getMemorySummary in CLI mode, memory-context-script.js
GetMemorySummaryCli ==
    /\ pc = "main"
    /\ actualMode = "cli"
    /\ variant = "api"
    /\ \E recentMemoriesCmd \in CliReplies(RecentResults),
          importantMemoriesCmd \in CliReplies(ImportantResults) :
         LET r == getMemorySummaryCli(recentMemoriesCmd, importantMemoriesCmd)
         IN /\ gotSummary' = r.value
            /\ stderr' = IF r.caught
                         THEN Append(stderr, <<"Error executing or parsing MCP memory service via CLI">>)
                         ELSE stderr
    /\ pc' = "summarized"
    /\ UNCHANGED <<remotePrompt, memoryPrefix, memorySummary, fetchedPrompt, okRuns, exitCode,
                   variant, actualMode, contextText, sent, stdout, file, serverProcess, runs>>

\* getMemorySummary in CLI mode, file-output variant; a spawn that fails
\* emits an error event nobody listens to, which ends the process
GetMemorySummaryCliServer ==
    /\ pc = "main"
    /\ actualMode = "cli"
    /\ variant = "file"
    /\ \/ /\ \E recentResponse \in HttpReplies(RecentResults),
               importantResponse \in HttpReplies(ImportantResults),
               alive \in BOOLEAN :
              LET r == getMemorySummaryCliServer(recentResponse, importantResponse, alive)
              IN /\ gotSummary' = r.value
                 /\ serverProcess' = r.server
                 /\ stderr' = IF r.caught
                              THEN Append(stderr, <<"Error executing MCP memory service via CLI:">>)
                              ELSE stderr
          /\ pc' = "summarized"
          /\ UNCHANGED exitCode
       \/ /\ pc' = "exited"
          /\ exitCode' = 1
          /\ stderr' = Append(stderr, <<"Unhandled error event">>)
          /\ UNCHANGED <<gotSummary, serverProcess>>
    /\ UNCHANGED <<remotePrompt, memoryPrefix, memorySummary, fetchedPrompt, okRuns,
                   variant, actualMode, contextText, sent, stdout, file, runs>>

\* formatMemoryContext(memorySummary); a TypeError reaches the catch of main
FormatMemoryContext ==
    /\ pc = "summarized"
    /\ IF FormatThrows(gotSummary)
       THEN /\ pc' = "exited"
            /\ exitCode' = 1
            /\ stderr' = Append(stderr, IF variant = "api"
                                        THEN <<"Error in memory context script:">>
                                        ELSE <<"Script execution failed:">>)
            /\ UNCHANGED contextText
       ELSE /\ pc' = "formatted"
            /\ contextText' = formatMemoryContext(memoryPrefix, Lists(gotSummary))
            /\ UNCHANGED <<exitCode, stderr>>
    /\ UNCHANGED <<remotePrompt, memoryPrefix, memorySummary, fetchedPrompt, okRuns,
                   variant, actualMode, gotSummary, sent, stdout, file, serverProcess, runs>>

\* updateProjectInstructions up to the end of the GET: the request fails, or
\* its reply has no data object, or project.system_prompt is read
GetProject ==
    /\ pc = "formatted"
    /\ variant = "api"
    /\ sent' = Append(sent, "GET")
    /\ \E outcome \in {"ok", "nodata", "fails"} :
         IF outcome = "ok"
         THEN /\ fetchedPrompt' = remotePrompt
              /\ pc' = "fetched"
              /\ UNCHANGED <<exitCode, stderr>>
         ELSE /\ pc' = "exited"
              /\ exitCode' = 1
              /\ stderr' = stderr \o << <<"Error updating project instructions:">>,
                                        <<"Failed to update Claude project instructions">> >>
              /\ UNCHANGED fetchedPrompt
    /\ UNCHANGED <<remotePrompt, memoryPrefix, memorySummary, okRuns,
                   variant, actualMode, gotSummary, contextText, stdout, file, serverProcess, runs>>

PatchProjectWithoutGet ==
    /\ pc \in {"formatted", "fetched"}
    /\ variant = "api"
    /\ sent' = Append(sent, "PATCH")
    /\ pc' = "exited"
    /\ \E outcome \in {"ok", "fails"} :
         IF outcome = "ok"
         THEN /\ remotePrompt' = SpliceSystemPrompt(fetchedPrompt, contextText)
              /\ okRuns' = okRuns + 1
              /\ exitCode' = 0
              /\ stdout' = Append(stdout, <<"Memory context successfully injected into Claude project instructions">>)
              /\ UNCHANGED stderr
         ELSE /\ exitCode' = 1
              /\ stderr' = stderr \o << <<"Error updating project instructions:">>,
                                        <<"Failed to update Claude project instructions">> >>
              /\ UNCHANGED <<remotePrompt, okRuns, stdout>>
    /\ UNCHANGED <<memoryPrefix, memorySummary, fetchedPrompt,
                   variant, actualMode, gotSummary, contextText, file, serverProcess, runs>>

\* the rest of updateProjectInstructions and of main: splice, PATCH, exit
PatchProject ==
    /\ pc = "fetched"
    /\ sent' = Append(sent, "PATCH")
    /\ pc' = "exited"
    /\ \E outcome \in {"ok", "fails"} :
         IF outcome = "ok"
         THEN /\ remotePrompt' = SpliceSystemPrompt(fetchedPrompt, contextText)
              /\ okRuns' = okRuns + 1
              /\ exitCode' = 0
              /\ stdout' = Append(stdout, <<"Memory context successfully injected into Claude project instructions">>)
              /\ UNCHANGED stderr
         ELSE /\ exitCode' = 1
              /\ stderr' = stderr \o << <<"Error updating project instructions:">>,
                                        <<"Failed to update Claude project instructions">> >>
              /\ UNCHANGED <<remotePrompt, okRuns, stdout>>
    /\ UNCHANGED <<memoryPrefix, memorySummary, fetchedPrompt,
                   variant, actualMode, gotSummary, contextText, file, serverProcess, runs>>

\* updateProjectInstructions of the file-output variant (defined there, not
\* called by its main): the GET is tried on four endpoints in turn until one
\* answers 200 with data, the PATCH goes to the endpoint that answered.
\* outcomes[i] is what endpoint i would answer: "ok", "nodata" or "fails".
NumEndpoints == 4
updateProjectInstructionsEndpoints(outcomes, patchOk, systemPrompt, memoryContextText) ==
    LET answering == {i \in 1..NumEndpoints : outcomes[i] = "ok"}
        usedEndpoint == IF answering = {} THEN 0
                        ELSE CHOOSE i \in answering : \A j \in answering : i <= j
        gets == [i \in 1..(IF usedEndpoint = 0 THEN NumEndpoints ELSE usedEndpoint) |-> <<"GET", i>>]
    IN IF usedEndpoint = 0
       THEN [sent |-> gets, system_prompt |-> systemPrompt, returned |-> FALSE]
       ELSE [sent |-> Append(gets, <<"PATCH", usedEndpoint>>),
             system_prompt |-> IF patchOk
                               THEN SpliceSystemPrompt(systemPrompt, memoryContextText)
                               ELSE systemPrompt,
             returned |-> patchOk]

\* file-output variant: write memory-context.txt, then print the block
saveMemoryContextToFile ==
    /\ pc = "formatted"
    /\ variant = "file"
    /\ pc' = "exited"
    /\ \E written \in BOOLEAN :
         IF written
         THEN /\ file' = newMemorySection(contextText)
              /\ stdout' = stdout \o << <<"Memory context saved to: ">>,
                                        <<"--- MEMORY CONTEXT ---">>,
                                        newMemorySection(contextText),
                                        <<"--- END MEMORY CONTEXT ---">>,
                                        <<"Memory context generated successfully">> >>
              /\ exitCode' = 0
              /\ UNCHANGED stderr
         ELSE /\ stderr' = stderr \o << <<"Error saving memory context:">>,
                                        <<"Failed to generate memory context">> >>
              /\ exitCode' = 1
              /\ UNCHANGED <<file, stdout>>
    /\ UNCHANGED <<remotePrompt, memoryPrefix, memorySummary, fetchedPrompt, okRuns,
                   variant, actualMode, gotSummary, contextText, sent, serverProcess, runs>>

\* the script is started again: a new process, the same project and directory
Restart ==
    /\ pc = "exited"
    /\ runs < MaxFlowRuns
    /\ runs' = runs + 1
    /\ pc' = "main"
    /\ exitCode' = NotExited
    /\ gotSummary' = EmptySummary
    /\ contextText' = NoText
    /\ fetchedPrompt' = <<>>
    /\ sent' = <<>>
    /\ stdout' = <<>>
    /\ stderr' = <<>>
    /\ serverProcess' = "none"
    /\ UNCHANGED <<remotePrompt, memoryPrefix, memorySummary, okRuns, variant, actualMode, file>>

FlowNext ==
    /\ \/ GetMemorySummaryHttp
       \/ GetMemorySummaryCli
       \/ GetMemorySummaryCliServer
       \/ FormatMemoryContext
       \/ GetProject
       \/ PatchProject
       \/ saveMemoryContextToFile
       \/ Restart
    /\ UNCHANGED storeVars

SpecFlow == FlowInit /\ [][FlowNext]_vars

(***************************************************************************)
(* mcp-project-knowledge-server.py: SQLite and JSON helpers                *)
(***************************************************************************)
Tables == {"notes", "project_knowledge", "project_instructions", "project_context"}

\* the database as one value: the four tables and sqlite_sequence
DB == [notes |-> notes, project_knowledge |-> project_knowledge,
       project_instructions |-> project_instructions,
       project_context |-> project_context, sqlite_sequence |-> sqlite_sequence]

NextRowidConstant(db, table) == 1

\* INTEGER PRIMARY KEY AUTOINCREMENT: one more than the largest rowid ever used
NextRowid(db, table) == db.sqlite_sequence[table] + 1

InsertRowOverwrite(db, table, row) ==
    IF db[table] = <<>>
    THEN [db EXCEPT ![table] = Append(@, [row EXCEPT !.id = NextRowid(db, table)]),
                    !.sqlite_sequence[table] = NextRowid(db, table)]
    ELSE [db EXCEPT ![table] =
             [i \in DOMAIN @ |-> IF i = Len(@) THEN [row EXCEPT !.id = db[table][i].id] ELSE @[i]]]

\* INSERT INTO table (...) VALUES (...): one more row, with a fresh rowid
InsertRow(db, table, row) ==
    [db EXCEPT ![table] = Append(@, [row EXCEPT !.id = NextRowid(db, table)]),
               !.sqlite_sequence[table] = NextRowid(db, table)]

ConnExitNoRollback(committed, txn, raised) == txn

\* "with sqlite3.connect(...) as conn": commit when the body returned,
\* rollback when it raised
ConnExit(committed, txn, raised) == IF raised THEN committed ELSE txn

CheckBetween0And5(n) == n >= 0 /\ n <= 5

\* CHECK (importance BETWEEN 1 AND 5), CHECK (priority BETWEEN 1 AND 5)
CheckBetween1And5(n) == n >= 1 /\ n <= 5

DQ == "\""
BS == "\\"

RECURSIVE EscapeJson(_)
EscapeJson(str) ==
    IF str = <<>> THEN <<>>
    ELSE (IF Head(str) \in {DQ, BS} THEN <<BS, Head(str)>> ELSE <<Head(str)>>) \o EscapeJson(Tail(str))

\* json.dumps of a list of strings: ["a", "b"]
json_dumps(list) ==
    <<"[">> \o Join([i \in 1..Len(list) |-> <<DQ>> \o EscapeJson(list[i]) \o <<DQ>>], <<",", " ">>) \o <<"]">>

RECURSIVE ParseJsonString(_, _, _)
\* i is the index after the opening quote
ParseJsonString(text, i, acc) ==
    IF text[i] = DQ THEN [val |-> acc, next |-> i + 1]
    ELSE IF text[i] = BS THEN ParseJsonString(text, i + 2, Append(acc, text[i + 1]))
    ELSE ParseJsonString(text, i + 1, Append(acc, text[i]))

RECURSIVE ParseJsonElems(_, _, _)
ParseJsonElems(text, i, acc) ==
    IF text[i] = "]" THEN acc
    ELSE IF text[i] \in {",", " "} THEN ParseJsonElems(text, i + 1, acc)
    ELSE LET r == ParseJsonString(text, i + 1, <<>>)
         IN ParseJsonElems(text, r.next, Append(acc, r.val))

\* json.loads of a serialized list of strings
json_loads(text) == ParseJsonElems(text, 2, <<>>)

\* SQLite folds the case of ASCII letters in LIKE, as str.lower() does
ToLower(c) ==
    CASE c = "A" -> "a" [] c = "B" -> "b" [] c = "C" -> "c"
      [] c = "T" -> "t" [] c = "U" -> "u" [] c = "D" -> "d"
      [] c = "E" -> "e" [] c = "F" -> "f" [] c = "I" -> "i"
      [] c = "O" -> "o" [] c = "P" -> "p" [] c = "R" -> "r" [] OTHER -> c

RECURSIVE Like(_, _)
\* text LIKE pat: % matches any run of characters, _ any one character
Like(pat, text) ==
    IF pat = <<>> THEN text = <<>>
    ELSE IF Head(pat) = "%"
         THEN Like(Tail(pat), text) \/ (text # <<>> /\ Like(pat, Tail(text)))
         ELSE /\ text # <<>>
              /\ (Head(pat) = "_" \/ ToLower(Head(pat)) = ToLower(Head(text)))
              /\ Like(Tail(pat), Tail(text))

\* the orders in which a SELECT ... ORDER BY may return the rows of S:
\* every enumeration of S in which no row precedes one that sorts before it
Orderings(S, Before(_, _)) ==
    {f \in [1..Cardinality(S) -> S] :
        /\ \A i, j \in 1..Cardinality(S) : i # j => f[i] # f[j]
        /\ \A i, j \in 1..Cardinality(S) : i < j => ~Before(f[j], f[i])}

RowSet(rows) == {rows[i] : i \in 1..Len(rows)}

(***************************************************************************)
(* ClaudeProjectKnowledgeManager                                           *)
(***************************************************************************)
DefaultSource == <<"conversation">>

project_prefix(pname) == IF pname # None THEN <<"[", pname, "] ">> ELSE <<>>

formatted_content(pname, entry) ==
    <<"Project: ", IF pname # None THEN pname ELSE "Local",
      "\nCategory: ", entry.category,
      "\nImportance: ", ToString(entry.importance), "/5\nTags: ">>
    \o Join(entry.tags, <<", ">>)
    \o <<"\nSource: ">> \o entry.source \o <<"\n\n">> \o entry.content

NoteRow(pname, now, entry) ==
    [id |-> 0, title |-> project_prefix(pname) \o entry.title,
     content |-> formatted_content(pname, entry), created_at |-> now]

KnowledgeRow(now, entry) ==
    [id |-> 0, title |-> entry.title, content |-> entry.content,
     category |-> entry.category, tags |-> json_dumps(entry.tags),
     importance |-> entry.importance, source |-> entry.source,
     created_at |-> now, updated_at |-> now]

\* add_knowledge: INSERT INTO notes, lastrowid, INSERT INTO project_knowledge,
\* commit.  fault names the execute call at which the storage engine fails.
add_knowledge(db, pname, now, entry, fault) ==
    LET raised1 == fault = "notes"
        db1     == InsertRow(db, "notes", NoteRow(pname, now, entry))
        note_id == db1.sqlite_sequence["notes"]
        raised2 == fault = "project_knowledge" \/ ~CheckBetween1And5(entry.importance)
        db2     == InsertRow(db1, "project_knowledge", KnowledgeRow(now, entry))
        raised  == raised1 \/ raised2
        txn     == IF raised1 THEN db ELSE IF raised2 THEN db1 ELSE db2
    IN [db |-> ConnExit(db, txn, raised), raised |-> raised, value |-> note_id]

KnowledgeDictRawTags(row) ==
    [id |-> row.id, title |-> row.title, content |-> row.content,
     category |-> row.category, tags |-> row.tags,
     importance |-> row.importance, source |-> row.source, created_at |-> row.created_at]

\* the dict built from one SELECTed project_knowledge row
KnowledgeDict(row) ==
    [id |-> row.id, title |-> row.title, content |-> row.content,
     category |-> row.category,
     tags |-> IF row.tags # <<>> THEN json_loads(row.tags) ELSE <<>>,
     importance |-> row.importance, source |-> row.source, created_at |-> row.created_at]

KnowledgeBeforeAsc(a, b) ==
    \/ a.importance > b.importance
    \/ a.importance = b.importance /\ a.created_at < b.created_at

\* ORDER BY importance DESC, created_at DESC
KnowledgeBefore(a, b) ==
    \/ a.importance > b.importance
    \/ a.importance = b.importance /\ a.created_at > b.created_at

\* WHERE (content LIKE ? OR title LIKE ? OR tags LIKE ?) [AND category = ?]
SearchMatches(db, query, category) ==
    LET pat == <<"%">> \o query \o <<"%">>
    IN {r \in RowSet(db.project_knowledge) :
           /\ Like(pat, r.content) \/ Like(pat, r.title) \/ Like(pat, r.tags)
           /\ (category # None /\ category # "") => r.category = category}

\* the lists search_knowledge may return
search_knowledge(db, query, category) ==
    {[i \in DOMAIN f |-> KnowledgeDict(f[i])] : f \in Orderings(SearchMatches(db, query, category), KnowledgeBefore)}

get_all_knowledgeUnsorted(db) ==
    {[i \in DOMAIN db.project_knowledge |-> KnowledgeDict(db.project_knowledge[i])]}

\* the lists get_all_knowledge may return
get_all_knowledge(db) ==
    {[i \in DOMAIN f |-> KnowledgeDict(f[i])] : f \in Orderings(RowSet(db.project_knowledge), KnowledgeBefore)}


ExistingByContent(db, section) ==
    {r \in RowSet(db.project_instructions) : r.content = section /\ r.active}

\* SELECT id FROM project_instructions WHERE section = ? AND active = 1
ExistingActive(db, section) ==
    {r \in RowSet(db.project_instructions) : r.section = section /\ r.active}

InstructionRow(now, instruction) ==
    [id |-> 0, section |-> instruction.section, content |-> instruction.content,
     priority |-> instruction.priority, active |-> TRUE,
     created_at |-> now, updated_at |-> now]

UpdateActiveFirstOnly(db, now, instruction) ==
    [db EXCEPT !.project_instructions =
        [i \in DOMAIN @ |->
            IF /\ @[i].section = instruction.section /\ @[i].active
               /\ \A j \in 1..(i - 1) : ~(@[j].section = instruction.section /\ @[j].active)
            THEN [@[i] EXCEPT !.content = instruction.content,
                              !.priority = instruction.priority,
                              !.updated_at = now]
            ELSE @[i]]]

\* UPDATE project_instructions SET content, priority, updated_at
\* WHERE section = ? AND active = 1
UpdateActive(db, now, instruction) ==
    [db EXCEPT !.project_instructions =
        [i \in DOMAIN @ |->
            IF @[i].section = instruction.section /\ @[i].active
            THEN [@[i] EXCEPT !.content = instruction.content,
                              !.priority = instruction.priority,
                              !.updated_at = now]
            ELSE @[i]]]

update_instructionUnchecked(db, now, instruction, fault) ==
    LET existing == ExistingActive(db, instruction.section)
        raised   == fault = "write"
        written  == IF existing # {}
                    THEN UpdateActive(db, now, instruction)
                    ELSE InsertRow(db, "project_instructions", InstructionRow(now, instruction))
        txn      == IF raised THEN db ELSE written
    IN [db |-> ConnExit(db, txn, raised), raised |-> raised, value |-> TRUE]

\* update_instruction: look the active row up, UPDATE it when fetchone()
\* found one, INSERT otherwise, commit, return True
update_instruction(db, now, instruction, fault) ==
    LET existing == ExistingActive(db, instruction.section)
        raised   == fault = "write" \/ ~CheckBetween1And5(instruction.priority)
        written  == IF existing # {}
                    THEN UpdateActive(db, now, instruction)
                    ELSE InsertRow(db, "project_instructions", InstructionRow(now, instruction))
        txn      == IF raised THEN db ELSE written
    IN [db |-> ConnExit(db, txn, raised), raised |-> raised, value |-> TRUE]

ContextRow(now, key, value, description) ==
    [id |-> 0, context_key |-> key, context_value |-> value,
     description |-> description, updated_at |-> now]

InsertPlain(db, row) == InsertRow(db, "project_context", row)

\* INSERT OR REPLACE under UNIQUE (context_key): the row holding the key is
\* deleted, the new row is inserted under a fresh rowid
InsertOrReplace(db, row) ==
    InsertRow([db EXCEPT !.project_context = SelectSeq(@, LAMBDA r : r.context_key # row.context_key)],
              "project_context", row)

\* update_context: INSERT OR REPLACE, commit, return True.  A NULL key or
\* value violates NOT NULL (no column default), which aborts the statement.
update_context(db, now, key, value, description, fault) ==
    LET raised == fault = "write" \/ key = None \/ value = None
        txn    == IF raised THEN db ELSE InsertOrReplace(db, ContextRow(now, key, value, description))
    IN [db |-> ConnExit(db, txn, raised), raised |-> raised, value |-> TRUE]

\* ORDER BY updated_at DESC
ContextBefore(a, b) == a.updated_at > b.updated_at

RECURSIVE ContextDict(_)
\* context[row[0]] = {...} for each fetched row, in order: a later row
\* overwrites an earlier one under the same key
ContextDict(rows) ==
    IF rows = <<>> THEN << >>
    ELSE LET last == rows[Len(rows)]
         IN (last.context_key :> [value |-> last.context_value,
                                  description |-> last.description,
                                  updated_at |-> last.updated_at])
            @@ ContextDict(SubSeq(rows, 1, Len(rows) - 1))

\* the mappings get_context may return
get_context(db) ==
    {ContextDict(f) : f \in Orderings(RowSet(db.project_context), ContextBefore)}

(***************************************************************************)
(* Store: bounds, inputs, actions                                          *)
(***************************************************************************)
MaxClock        == 1
MaxKnowledge    == 2
MaxInstructions == 3
MaxContextRowid == 3

ProjectNames == {None, "P"}

EntrySamples ==
    { [title |-> <<"T">>, content |-> <<"C">>, category |-> "technical",
       tags |-> << <<"a">>, <<"b">> >>, source |-> DefaultSource],
      [title |-> <<"U">>, content |-> <<"c", "%">>, category |-> "preferences",
       tags |-> << <<"b", DQ>>, <<>> >>, source |-> DefaultSource] }

Sample(t) == CHOOSE e \in EntrySamples : e.title = t

WithImportance(e, i) ==
    [title |-> e.title, content |-> e.content, category |-> e.category,
     tags |-> e.tags, importance |-> i, source |-> e.source]

\* both edges of the CHECK range, their outside neighbours and the middle with
\* the first sample, one importance with the second
Importances == {0, 1, 3, 5, 6}

Entries ==
    {WithImportance(Sample(<<"T">>), i) : i \in Importances}
    \cup {WithImportance(Sample(<<"U">>), 3)}

KnowledgeFaults == {"none", "notes", "project_knowledge"}
WriteFaults     == {"none", "write"}

Queries    == {<<"C">>, <<"c", "%">>, <<"b">>, <<"x">>}
Categories == {None, "technical"}

Sections     == {"guidelines", "constraints"}
InstrContent == {"v1", "v2"}
Priorities   == {0, 1, 3, 5, 6}
Instructions == [section : Sections, content : InstrContent, priority : Priorities]

ContextKeys   == {"current_focus", "active_task"}
ContextValues == {"v1", "v2", None}
Descriptions  == {None, "d1"}

StoreInit ==
    /\ project_name \in ProjectNames
    /\ environ = NoEnviron
    /\ WritersIdle
    /\ notes = <<>>
    /\ project_knowledge = <<>>
    /\ project_instructions = <<>>
    /\ project_context = <<>>
    /\ sqlite_sequence = [t \in Tables |-> 0]
    /\ clock = 0
    /\ ret = [op |-> "none"]
    /\ last_add = <<>>
    /\ last_instr = {}
    /\ last_ctx = {}

SetDB(db) ==
    /\ notes' = db.notes
    /\ project_knowledge' = db.project_knowledge
    /\ project_instructions' = db.project_instructions
    /\ project_context' = db.project_context
    /\ sqlite_sequence' = db.sqlite_sequence

\* a second passes
Tick ==
    /\ clock < MaxClock
    /\ clock' = clock + 1
    /\ UNCHANGED <<project_name, environ, writers, raceCalls, notes, project_knowledge, project_instructions,
                   project_context, sqlite_sequence, ret, last_add, last_instr, last_ctx>>
    /\ UNCHANGED scriptVars

\* one add_knowledge call, while the tables hold fewer than max rows
AddKnowledgeWithin(entry, fault, max) ==
    /\ Len(project_knowledge) < max
    /\ Len(notes) < max
    /\ LET r == add_knowledge(DB, project_name, clock, entry, fault)
       IN /\ SetDB(r.db)
          /\ ret' = IF r.raised
                    THEN [op |-> "add_knowledge", status |-> "error", entry |-> entry, fault |-> fault]
                    ELSE [op |-> "add_knowledge", status |-> "ok", entry |-> entry, fault |-> fault,
                          value |-> r.value]
          /\ last_add' = IF r.raised THEN last_add ELSE <<entry>>
    /\ UNCHANGED <<project_name, environ, writers, raceCalls, clock, last_instr, last_ctx>>
    /\ UNCHANGED scriptVars

AddKnowledge(entry, fault) == AddKnowledgeWithin(entry, fault, MaxKnowledge)

SearchKnowledge(query, category) ==
    /\ \E result \in search_knowledge(DB, query, category) :
          ret' = [op |-> "search_knowledge", status |-> "ok", query |-> query,
                  category |-> category, value |-> result]
    /\ UNCHANGED <<project_name, environ, writers, raceCalls, notes, project_knowledge, project_instructions,
                   project_context, sqlite_sequence, clock, last_add, last_instr, last_ctx>>
    /\ UNCHANGED scriptVars

GetAllKnowledge ==
    /\ \E result \in get_all_knowledge(DB) :
          ret' = [op |-> "get_all_knowledge", status |-> "ok", value |-> result]
    /\ UNCHANGED <<project_name, environ, writers, raceCalls, notes, project_knowledge, project_instructions,
                   project_context, sqlite_sequence, clock, last_add, last_instr, last_ctx>>
    /\ UNCHANGED scriptVars

UpdateInstruction(instruction, fault) ==
    /\ Len(project_instructions) < MaxInstructions
    /\ LET r == update_instruction(DB, clock, instruction, fault)
       IN /\ SetDB(r.db)
          /\ ret' = [op |-> "update_instruction", status |-> IF r.raised THEN "error" ELSE "ok",
                     instruction |-> instruction, fault |-> fault]
          /\ last_instr' = IF r.raised THEN last_instr
                           ELSE {e \in last_instr : e.section # instruction.section} \cup {instruction}
    /\ UNCHANGED <<project_name, environ, writers, raceCalls, clock, last_add, last_ctx>>
    /\ UNCHANGED scriptVars

UpdateContext(key, value, description, fault) ==
    /\ sqlite_sequence["project_context"] < MaxContextRowid
    /\ LET r == update_context(DB, clock, key, value, description, fault)
       IN /\ SetDB(r.db)
          /\ ret' = [op |-> "update_context", status |-> IF r.raised THEN "error" ELSE "ok",
                     key |-> key, fault |-> fault]
          /\ last_ctx' = IF r.raised THEN last_ctx
                         ELSE {e \in last_ctx : e.key # key}
                              \cup {[key |-> key, value |-> value, description |-> description]}
    /\ UNCHANGED <<project_name, environ, writers, raceCalls, clock, last_add, last_instr>>
    /\ UNCHANGED scriptVars

GetContext ==
    /\ \E result \in get_context(DB) :
          ret' = [op |-> "get_context", status |-> "ok", value |-> result]
    /\ UNCHANGED <<project_name, environ, writers, raceCalls, notes, project_knowledge, project_instructions,
                   project_context, sqlite_sequence, clock, last_add, last_instr, last_ctx>>
    /\ UNCHANGED scriptVars

KnowledgeNext ==
    \/ Tick
    \/ \E entry \in Entries, fault \in KnowledgeFaults : AddKnowledge(entry, fault)
    \/ \E query \in Queries, category \in Categories : SearchKnowledge(query, category)
    \/ GetAllKnowledge

InstructionNext ==
    \/ Tick
    \/ \E instruction \in Instructions, fault \in WriteFaults : UpdateInstruction(instruction, fault)

ContextNext ==
    \/ Tick
    \/ \E key \in ContextKeys, value \in ContextValues, description \in Descriptions, fault \in WriteFaults :
          UpdateContext(key, value, description, fault)
    \/ GetContext

\* the server starts on a database holding no rows; no script runs
Init == StoreInit /\ ScriptIdle

\* three and more entries of importance 5 or 3, read back by get_all_knowledge
MaxOrderingAdds == 3

OrderingEntries == {WithImportance(Sample(<<"T">>), i) : i \in {3, 5}}

OrderingNext ==
    \/ Tick
    \/ \E entry \in OrderingEntries : AddKnowledgeWithin(entry, "none", MaxOrderingAdds)
    \/ GetAllKnowledge

SpecKnowledge    == Init /\ [][KnowledgeNext]_vars
SpecOrdering     == Init /\ [][OrderingNext]_vars
SpecInstructions == Init /\ [][InstructionNext]_vars
SpecContext      == Init /\ [][ContextNext]_vars

(***************************************************************************)
(* ClaudeProjectKnowledgeManager: remaining read methods                   *)
(***************************************************************************)
\* the section names in use, in bytewise ascending order (BINARY collation)
SectionsAscending == <<"constraints", "guidelines">>

SectionRank(s) == CHOOSE i \in 1..Len(SectionsAscending) : SectionsAscending[i] = s

InstructionBeforeAsc(a, b) ==
    \/ a.priority < b.priority
    \/ a.priority = b.priority /\ SectionRank(a.section) < SectionRank(b.section)

\* ORDER BY priority DESC, section
InstructionBefore(a, b) ==
    \/ a.priority > b.priority
    \/ a.priority = b.priority /\ SectionRank(a.section) < SectionRank(b.section)

InstructionDict(row) ==
    [id |-> row.id, section |-> row.section, content |-> row.content,
     priority |-> row.priority, created_at |-> row.created_at, updated_at |-> row.updated_at]

\* the lists get_all_instructions may return: WHERE active = 1
get_all_instructions(db) ==
    {[i \in DOMAIN f |-> InstructionDict(f[i])] :
        f \in Orderings({r \in RowSet(db.project_instructions) : r.active}, InstructionBefore)}

\* ORDER BY created_at DESC
NoteBefore(a, b) == a.created_at > b.created_at

NoteDict(row) ==
    [id |-> row.id, title |-> row.title, content |-> row.content, created_at |-> row.created_at]

\* the lists get_claude_desktop_notes may return
get_claude_desktop_notes(db) ==
    {[i \in DOMAIN f |-> NoteDict(f[i])] : f \in Orderings(RowSet(db.notes), NoteBefore)}

\* get_project_context: configuration only, no table is read
get_project_context(pname, env) ==
    [project_id   |-> env.CLAUDE_PROJECT_ID,
     project_name |-> IF pname # None THEN pname ELSE "Local Storage",
     has_api_key  |-> env.ANTHROPIC_API_KEY # None,
     storage_mode |-> IF env.CLAUDE_PROJECT_ID # None THEN "API + Local" ELSE "Local Only"]

(***************************************************************************)
(* list_tools and call_tool.  A result text is a token sequence; the       *)
(* pictographs in front of the fixed phrases are left out of the literals. *)
(***************************************************************************)
DeclaredTools ==
    {"add_project_knowledge", "update_project_instructions", "search_project_knowledge",
     "get_project_overview", "update_project_context", "suggest_project_improvements",
     "get_claude_desktop_notes", "check_project_context"}

\* "required" of each inputSchema
RequiredArguments(name) ==
    CASE name = "add_project_knowledge"        -> {"title", "content", "category"}
      [] name = "update_project_instructions"  -> {"section", "content"}
      [] name = "search_project_knowledge"     -> {"query"}
      [] name = "update_project_context"       -> {"key", "value"}
      [] name = "suggest_project_improvements" -> {"conversation_summary"}
      [] OTHER -> {}

Min(a, b) == IF a <= b THEN a ELSE b

\* arguments.get(key, default)
Get(arguments, key, default) == IF key \in DOMAIN arguments THEN arguments[key] ELSE default

\* what one call_tool run leaves behind: the database, whether it returned a
\* text or raised, the store methods it invoked, and what it stored
Outcome(db, status, error, text, calls) ==
    [db |-> db, status |-> status, error |-> error, text |-> text, calls |-> calls,
     added |-> <<>>, instructed |-> {}, contexted |-> {}]

\* arguments["..."] on an absent key
KeyError(db, calls) == Outcome(db, "error", "KeyError", <<>>, calls)

\* an exception of a store method leaves call_tool
StoreError(db, calls) == Outcome(db, "error", "sqlite3.Error", <<>>, calls)

api_note   == "Note: This entry will be added to the actual Claude project when API integration is implemented."
local_note == "This entry will appear in Claude Desktop's local Project knowledge section."

ToolAddProjectKnowledge(db, pname, env, now, arguments, fault) ==
    IF ~({"title", "content", "category"} \subseteq DOMAIN arguments)
    THEN {KeyError(db, <<>>)}
    ELSE LET entry == [title |-> arguments.title, content |-> arguments.content,
                       category |-> arguments.category,
                       tags |-> Get(arguments, "tags", <<>>),
                       importance |-> Get(arguments, "importance", 3),
                       source |-> DefaultSource]
             r == add_knowledge(db, pname, now, entry, fault)
             context == get_project_context(pname, env)
             status_note == IF context.project_id # "None" THEN api_note ELSE local_note
             text == <<"Added project knowledge '">> \o entry.title
                     \o <<"' (Note ID: ", ToString(r.value), ")\nProject: ", context.project_name,
                          "\nCategory: ", entry.category,
                          " | Importance: ", ToString(entry.importance), "/5\nTags: ">>
                     \o Join(entry.tags, <<", ">>)
                     \o <<"\nStorage: ", context.storage_mode, "\n\n", status_note>>
         IN IF r.raised
            THEN {StoreError(r.db, <<"add_knowledge">>)}
            ELSE {[Outcome(r.db, "ok", None, text, <<"add_knowledge", "get_project_context">>)
                       EXCEPT !.added = <<entry>>]}

ToolUpdateProjectInstructions(db, now, arguments, fault) ==
    IF ~({"section", "content"} \subseteq DOMAIN arguments)
    THEN {KeyError(db, <<>>)}
    ELSE LET instruction == [section |-> arguments.section, content |-> arguments.content,
                             priority |-> Get(arguments, "priority", 3)]
             r == update_instruction(db, now, instruction, fault)
             text == IF r.value
                     THEN <<"Updated project instructions for section '", instruction.section,
                            "' with priority ", ToString(instruction.priority)>>
                     ELSE <<"Failed to update project instructions for section '",
                            instruction.section, "'">>
         IN IF r.raised
            THEN {StoreError(r.db, <<"update_instruction">>)}
            ELSE {[Outcome(r.db, "ok", None, text, <<"update_instruction">>)
                       EXCEPT !.instructed = {instruction}]}

SearchItemText(item) ==
    <<"**">> \o item.title
    \o <<"** (", item.category, ", importance: ", ToString(item.importance), ")\n">>
    \o SubSeq(item.content, 1, Min(200, Len(item.content)))
    \o (IF Len(item.content) > 200 THEN <<"...">> ELSE <<>>)
    \o <<"\n", "Tags: ">> \o Join(item.tags, <<", ">>) \o <<"\n\n">>

SearchText(query, results) ==
    IF results = <<>>
    THEN <<"No project knowledge found for query: '">> \o query \o <<"'">>
    ELSE <<"Found ", ToString(Len(results)), " knowledge entries for '">> \o query \o <<"':\n\n">>
         \o Flatten([i \in 1..Min(5, Len(results)) |-> SearchItemText(results[i])])

ToolSearchProjectKnowledge(db, arguments) ==
    IF "query" \notin DOMAIN arguments
    THEN {KeyError(db, <<>>)}
    ELSE {Outcome(db, "ok", None, SearchText(arguments.query, results), <<"search_knowledge">>) :
             results \in search_knowledge(db, arguments.query, Get(arguments, "category", None))}

\* str.title() of the section and category names in use
str_title(s) ==
    CASE s = "guidelines" -> "Guidelines" [] s = "constraints" -> "Constraints"
      [] s = "technical" -> "Technical" [] s = "preferences" -> "Preferences"
      [] s = "business" -> "Business" [] OTHER -> s

\* the orders in which context.items() may run over the keys
KeyOrders(context) ==
    {f \in [1..Cardinality(DOMAIN context) -> DOMAIN context] :
        \A i, j \in DOMAIN f : i # j => f[i] # f[j]}

OverviewContext(order, context) ==
    IF DOMAIN context = {} THEN <<>>
    ELSE <<"## Current Context\n">>
         \o Flatten([i \in 1..Len(order) |->
               <<"- **", order[i], "**: ", context[order[i]].value, "\n">>
               \o (IF context[order[i]].description \notin {None, ""}
                   THEN <<"  _", context[order[i]].description, "_\n">> ELSE <<>>)])
         \o <<"\n">>

OverviewInstructions(instructions) ==
    IF instructions = <<>> THEN <<>>
    ELSE <<"## Project Instructions\n">>
         \o Flatten([i \in 1..Len(instructions) |->
               <<"### ", str_title(instructions[i].section),
                 " (Priority: ", ToString(instructions[i].priority), ")\n",
                 instructions[i].content, "\n\n">>])

OverviewCategory(category, items) ==
    <<"### ", str_title(category), " (", ToString(Len(items)), " items)\n">>
    \o Flatten([i \in 1..Min(3, Len(items)) |->
          <<"- **">> \o items[i].title
          \o <<"** (importance: ", ToString(items[i].importance), ")\n">>])
    \o (IF Len(items) > 3 THEN <<"- ... and ", ToString(Len(items) - 3), " more\n">> ELSE <<>>)
    \o <<"\n">>

OverviewKnowledge(knowledge) ==
    IF knowledge = <<>>
    THEN <<"## Knowledge Summary\nNo project knowledge stored yet.\n\n">>
    ELSE LET by_category == Dedupe([i \in 1..Len(knowledge) |-> knowledge[i].category])
         IN <<"## Knowledge Summary\n">>
            \o Flatten([c \in 1..Len(by_category) |->
                  OverviewCategory(by_category[c],
                                   SelectSeq(knowledge, LAMBDA k : k.category = by_category[c]))])

ToolGetProjectOverview(db) ==
    {Outcome(db, "ok", None,
             <<"# Project Overview\n\n">> \o OverviewContext(oc.keys, oc.context)
             \o OverviewInstructions(instructions) \o OverviewKnowledge(knowledge),
             <<"get_all_knowledge", "get_all_instructions", "get_context">>) :
        knowledge \in get_all_knowledge(db),
        instructions \in get_all_instructions(db),
        oc \in UNION {{[context |-> c, keys |-> f] : f \in KeyOrders(c)} : c \in get_context(db)}}

ToolUpdateProjectContext(db, now, arguments, fault) ==
    IF ~({"key", "value"} \subseteq DOMAIN arguments)
    THEN {KeyError(db, <<>>)}
    ELSE LET description == Get(arguments, "description", None)
             r == update_context(db, now, arguments.key, arguments.value, description, fault)
             text == IF r.value
                     THEN <<"Updated project context '", arguments.key, "' = '", arguments.value, "'">>
                     ELSE <<"Failed to update project context '", arguments.key, "'">>
         IN IF r.raised
            THEN {StoreError(r.db, <<"update_context">>)}
            ELSE {[Outcome(r.db, "ok", None, text, <<"update_context">>)
                       EXCEPT !.contexted = {[key |-> arguments.key, value |-> arguments.value,
                                              description |-> description]}]}

\* str.lower()
str_lower(s) == [i \in DOMAIN s |-> ToLower(s[i])]

\* sub in s
InStr(sub, s) ==
    \E i \in 0..(Len(s) - Len(sub)) : \A k \in 1..Len(sub) : s[i + k] = sub[k]

KwCode       == <<"c", "o", "d", "e">>
KwPrefer     == <<"p", "r", "e", "f", "e", "r">>
KwLimit      == <<"l", "i", "m", "i", "t">>
KwConstraint == <<"c", "o", "n", "s", "t", "r", "a", "i", "n", "t">>

TechnicalSuggestion   == "Consider adding technical knowledge about coding practices or architecture"
PreferencesSuggestion == "Consider documenting user preferences mentioned in conversations"
ConstraintsSuggestion == "Consider adding constraint instructions based on mentioned limitations"
GuidelinesSuggestion  == "Consider adding guideline instructions for how to use the accumulated knowledge"
SuggestionsHeader     == "## Project Improvement Suggestions\n\n"
WellOrganized == "No specific improvements suggested at this time. The project knowledge appears well-organized."

\* each rule gives the suggestions it appends: none or one
SuggestTechnical(categories, summary) ==
    IF "technical" \notin categories /\ InStr(KwCode, str_lower(summary))
    THEN << <<TechnicalSuggestion>> >> ELSE <<>>

SuggestPreferencesWhenStored(categories, summary) ==
    IF "preferences" \in categories /\ InStr(KwPrefer, str_lower(summary))
    THEN << <<PreferencesSuggestion>> >> ELSE <<>>

SuggestPreferences(categories, summary) ==
    IF "preferences" \notin categories /\ InStr(KwPrefer, str_lower(summary))
    THEN << <<PreferencesSuggestion>> >> ELSE <<>>

SuggestConstraints(instruction_sections, summary) ==
    IF /\ "constraints" \notin instruction_sections
       /\ InStr(KwLimit, str_lower(summary)) \/ InStr(KwConstraint, str_lower(summary))
    THEN << <<ConstraintsSuggestion>> >> ELSE <<>>

SuggestGuidelines(instruction_sections, knowledge) ==
    IF "guidelines" \notin instruction_sections /\ Cardinality(knowledge) > 5
    THEN << <<GuidelinesSuggestion>> >> ELSE <<>>

SuggestLowImportance(knowledge) ==
    LET low_importance == {k \in knowledge : k.importance < 3}
    IN IF Cardinality(knowledge) > 10 /\ Cardinality(low_importance) > 5
       THEN << <<"Consider reviewing ", ToString(Cardinality(low_importance)),
                 " low-importance knowledge entries for relevance">> >>
       ELSE <<>>

SuggestionsTextNoSentinel(suggestions, nKnowledge, nInstructions) ==
    <<SuggestionsHeader>>
    \o Flatten([i \in 1..Len(suggestions) |-> <<ToString(i), ". ">> \o suggestions[i] \o <<"\n">>])

SuggestionsText(suggestions, nKnowledge, nInstructions) ==
    <<SuggestionsHeader>>
    \o (IF suggestions # <<>>
        THEN Flatten([i \in 1..Len(suggestions) |-> <<ToString(i), ". ">> \o suggestions[i] \o <<"\n">>])
             \o <<"\nBased on analysis of ", ToString(nKnowledge), " knowledge entries and ",
                  ToString(nInstructions), " instruction sections.">>
        ELSE <<WellOrganized>>)

\* suggest_project_improvements reads from the two lists only their lengths,
\* the categories, the importances and the sections, which are the same for
\* every order the two SELECTs may return: the fetched dicts are taken as sets
ToolSuggestProjectImprovements(db, arguments) ==
    LET knowledge    == {KnowledgeDict(r) : r \in RowSet(db.project_knowledge)}
        instructions == {InstructionDict(r) : r \in {x \in RowSet(db.project_instructions) : x.active}}
        calls        == <<"get_all_knowledge", "get_all_instructions">>
    IN IF "conversation_summary" \notin DOMAIN arguments
       THEN {KeyError(db, calls)}
       ELSE LET conversation_summary == arguments.conversation_summary
                categories == {k.category : k \in knowledge}
                instruction_sections == {i.section : i \in instructions}
                suggestions ==
                    SuggestTechnical(categories, conversation_summary)
                    \o SuggestPreferences(categories, conversation_summary)
                    \o SuggestConstraints(instruction_sections, conversation_summary)
                    \o SuggestGuidelines(instruction_sections, knowledge)
                    \o SuggestLowImportance(knowledge)
            IN {Outcome(db, "ok", None,
                        SuggestionsText(suggestions, Cardinality(knowledge), Cardinality(instructions)),
                        calls)}

NoteText(note) ==
    <<"## ">> \o note.title \o <<"\n", "**Created:** ", ToString(note.created_at), "\n">>
    \o (IF Len(note.content) > 300
        THEN SubSeq(note.content, 1, 300) \o <<"...">>
        ELSE note.content)
    \o <<"\n\n---\n\n">>

ToolGetClaudeDesktopNotes(db) ==
    {Outcome(db, "ok", None,
             IF ns = <<>>
             THEN <<"No notes found in Claude Desktop's Project knowledge section.">>
             ELSE <<"# Claude Desktop Project Knowledge (", ToString(Len(ns)), " entries)\n\n">>
                  \o Flatten([i \in 1..Len(ns) |-> NoteText(ns[i])]),
             <<"get_claude_desktop_notes">>) :
        ns \in get_claude_desktop_notes(db)}

ToolCheckProjectContext(db, pname, env) ==
    LET context == get_project_context(pname, env)
        bound   == context.project_id # "None"
    IN {Outcome(db, "ok", None,
                <<"# Project Context Status\n\n**Current Project**: ", context.project_name,
                  "\n**Project ID**: ", context.project_id,
                  "\n**API Key**: ", IF context.has_api_key THEN "Configured" ELSE "Not configured",
                  "\n**Storage Mode**: ", context.storage_mode,
                  "\n\n## Configuration Status\n\n",
                  IF bound THEN "**Project Context Detected**" ELSE "**No Project Context**",
                  IF bound THEN "**Current Setup**: Connected to specific Claude project"
                           ELSE "**Current Setup**: Local storage mode",
                  "**Available Projects** (based on local notes):\n- MCP-Memory-Dashboard (found in local notes)">>,
                <<"get_project_context">>)}

\* call_tool: the outcomes of one call; an unknown name falls through to the
\* final else, which returns a text
call_tool(db, pname, env, now, name, arguments, fault) ==
    CASE name = "add_project_knowledge" ->
             ToolAddProjectKnowledge(db, pname, env, now, arguments, fault)
      [] name = "update_project_instructions" ->
             ToolUpdateProjectInstructions(db, now, arguments, fault)
      [] name = "search_project_knowledge" -> ToolSearchProjectKnowledge(db, arguments)
      [] name = "get_project_overview" -> ToolGetProjectOverview(db)
      [] name = "update_project_context" ->
             ToolUpdateProjectContext(db, now, arguments, fault)
      [] name = "suggest_project_improvements" -> ToolSuggestProjectImprovements(db, arguments)
      [] name = "get_claude_desktop_notes" -> ToolGetClaudeDesktopNotes(db)
      [] name = "check_project_context" -> ToolCheckProjectContext(db, pname, env)
      [] OTHER -> {Outcome(db, "ok", None, <<"Unknown tool: ", name>>, <<>>)}

(***************************************************************************)
(* Tool calls: bounds, inputs, actions                                     *)
(***************************************************************************)
\* rows the tool calls may write in all
MaxToolRows == 2

\* the largest knowledge table the suggestion tool is run against
MaxSuggestKnowledge == 12

NoArguments == << >>

\* "I prefer dark mode", "PREFER CODE", "decode", "rate limit", "constraint",
\* "hello", ""
Summaries ==
    { <<"I", " ", "p", "r", "e", "f", "e", "r", " ", "d", "a", "r", "k", " ", "m", "o", "d", "e">>,
      <<"P", "R", "E", "F", "E", "R", " ", "C", "O", "D", "E">>,
      <<"d", "e", "c", "o", "d", "e">>,
      <<"r", "a", "t", "e", " ", "l", "i", "m", "i", "t">>,
      <<"c", "o", "n", "s", "t", "r", "a", "i", "n", "t">>,
      <<"h", "e", "l", "l", "o">>,
      <<>> }

SuggestArguments ==
    {[conversation_summary |-> s] : s \in Summaries}
    \cup {NoArguments, [focus_areas |-> << <<"x">> >>]}

ToolArguments(name) ==
    CASE name = "add_project_knowledge" ->
             { [title |-> <<"T">>, content |-> <<"C">>, category |-> "technical",
                tags |-> << <<"a">> >>, importance |-> 5],
               [title |-> <<"T">>, content |-> <<"c", "%">>, category |-> "preferences"],
               [title |-> <<"T">>, content |-> <<"C">>, category |-> "technical", importance |-> 6],
               [content |-> <<"C">>, category |-> "technical"],
               [title |-> <<"T">>, category |-> "technical"],
               [title |-> <<"T">>, content |-> <<"C">>] }
      [] name = "update_project_instructions" ->
             { [section |-> "guidelines", content |-> "v1"],
               [section |-> "constraints", content |-> "v2", priority |-> 5],
               [section |-> "guidelines", content |-> "v2", priority |-> 0],
               [content |-> "v1"],
               [section |-> "guidelines"] }
      [] name = "search_project_knowledge" ->
             { [query |-> <<"C">>],
               [query |-> <<"x">>, category |-> "technical"],
               [category |-> "technical"] }
      [] name = "update_project_context" ->
             { [key |-> "current_focus", value |-> "v1"],
               [key |-> "current_focus", value |-> "v2", description |-> "d1"],
               [value |-> "v1"],
               [key |-> "current_focus"] }
      [] name = "suggest_project_improvements" ->
             { [conversation_summary |-> <<"h", "e", "l", "l", "o">>],
               [conversation_summary |-> <<"r", "a", "t", "e", " ", "l", "i", "m", "i", "t">>],
               NoArguments }
      [] OTHER -> { NoArguments, [title |-> <<"T">>] }

ToolNames == DeclaredTools \cup {"delete_project_knowledge", ""}

ToolFaults(name) ==
    CASE name = "add_project_knowledge" -> KnowledgeFaults
      [] name \in {"update_project_instructions", "update_project_context"} -> WriteFaults
      [] OTHER -> {"none"}

WritingTools == {"add_project_knowledge", "update_project_instructions", "update_project_context"}

CallTool(name, arguments, fault) ==
    /\ name \in WritingTools =>
          Len(notes) + Len(project_instructions) + sqlite_sequence["project_context"] < MaxToolRows
    /\ \E o \in call_tool(DB, project_name, environ, clock, name, arguments, fault) :
          /\ SetDB(o.db)
          /\ ret' = [op |-> "call_tool", name |-> name, arguments |-> arguments, fault |-> fault,
                     status |-> o.status, error |-> o.error, text |-> o.text, calls |-> o.calls]
          /\ last_add' = IF o.added # <<>> THEN o.added ELSE last_add
          /\ last_instr' = {e \in last_instr : \A i \in o.instructed : e.section # i.section}
                           \cup o.instructed
          /\ last_ctx' = {e \in last_ctx : \A c \in o.contexted : e.key # c.key} \cup o.contexted
    /\ UNCHANGED <<project_name, environ, writers, raceCalls, clock>>
    /\ UNCHANGED scriptVars

\* the process configurations: nothing set, or project id, name and key set
ToolConfigs ==
    { [project_name |-> None, environ |-> NoEnviron],
      [project_name |-> "P", environ |-> [CLAUDE_PROJECT_ID |-> "id1", ANTHROPIC_API_KEY |-> "key1"]] }

ToolStoreInit ==
    /\ \E c \in ToolConfigs : project_name = c.project_name /\ environ = c.environ
    /\ WritersIdle
    /\ notes = <<>>
    /\ project_knowledge = <<>>
    /\ project_instructions = <<>>
    /\ project_context = <<>>
    /\ sqlite_sequence = [t \in Tables |-> 0]
    /\ clock = 0
    /\ ret = [op |-> "none"]
    /\ last_add = <<>>
    /\ last_instr = {}
    /\ last_ctx = {}

ToolInit == ToolStoreInit /\ ScriptIdle

ToolNext ==
    \/ Tick
    \/ \E name \in ToolNames :
          \E arguments \in ToolArguments(name), fault \in ToolFaults(name) :
              CallTool(name, arguments, fault)

SpecTools == ToolInit /\ [][ToolNext]_vars

\* the entries the suggestion tool is run against: low-importance technical
\* ones, preferences ones and low-importance business ones
SuggestEntry(category, importance) ==
    [title |-> <<"T">>, content |-> <<"C">>, category |-> category,
     tags |-> <<>>, importance |-> importance, source |-> DefaultSource]

RECURSIVE AddAll(_, _)
\* add_knowledge called once per entry of the list
AddAll(db, entries) ==
    IF entries = <<>> THEN db
    ELSE AddAll(add_knowledge(db, None, 0, Head(entries), "none").db, Tail(entries))

RECURSIVE InstructAll(_, _)
\* update_instruction called once per section of the list
InstructAll(db, sections) ==
    IF sections = <<>> THEN db
    ELSE InstructAll(update_instruction(db, 0, [section |-> Head(sections), content |-> "v1",
                                                 priority |-> 3], "none").db,
                     Tail(sections))

EmptyDB ==
    [notes |-> <<>>, project_knowledge |-> <<>>, project_instructions |-> <<>>,
     project_context |-> <<>>, sqlite_sequence |-> [t \in Tables |-> 0]]

Populated(nTechnical, nPreferences, nBusiness, sections) ==
    InstructAll(AddAll(EmptyDB,
                       [i \in 1..nTechnical |-> SuggestEntry("technical", 1)]
                       \o [i \in 1..nPreferences |-> SuggestEntry("preferences", 4)]
                       \o [i \in 1..nBusiness |-> SuggestEntry("business", 2)]),
                sections)

\* the store after some add_knowledge and update_instruction calls
SuggestStoreInit ==
    /\ project_name = None
    /\ environ = NoEnviron
    /\ WritersIdle
    /\ \E nTechnical, nPreferences, nBusiness \in 0..MaxSuggestKnowledge :
       \E sections \in {<<>>, <<"guidelines">>, <<"constraints">>, <<"guidelines", "constraints">>} :
          /\ nTechnical + nPreferences + nBusiness <= MaxSuggestKnowledge
          /\ LET db == Populated(nTechnical, nPreferences, nBusiness, sections)
             IN /\ notes = db.notes
                /\ project_knowledge = db.project_knowledge
                /\ project_instructions = db.project_instructions
                /\ project_context = db.project_context
                /\ sqlite_sequence = db.sqlite_sequence
                /\ last_add = IF db.project_knowledge = <<>> THEN <<>>
                              ELSE LET last == db.project_knowledge[Len(db.project_knowledge)]
                                   IN <<SuggestEntry(last.category, last.importance)>>
                /\ last_instr = {[section |-> sections[i], content |-> "v1", priority |-> 3] :
                                    i \in 1..Len(sections)}
    /\ clock = 0
    /\ ret = [op |-> "none"]
    /\ last_ctx = {}

SuggestInit == SuggestStoreInit /\ ScriptIdle

SuggestNext ==
    \E arguments \in SuggestArguments :
        CallTool("suggest_project_improvements", arguments, "none")

SpecSuggest == SuggestInit /\ [][SuggestNext]_vars

(***************************************************************************)
(* Server processes sharing one database file: update_instruction and      *)
(* get_all_instructions, statement by statement                            *)
(***************************************************************************)
MaxRaceCalls == 4

\* both sections, both contents, two priorities
RaceInstructions ==
    { [section |-> "guidelines",  content |-> "v1", priority |-> 1],
      [section |-> "guidelines",  content |-> "v2", priority |-> 3],
      [section |-> "constraints", content |-> "v1", priority |-> 3],
      [section |-> "constraints", content |-> "v2", priority |-> 1] }

\* a row switched off by hand (the schema documents active = 0; no tool writes it)
InactiveRow ==
    [id |-> 1, section |-> "guidelines", content |-> "v0", priority |-> 5,
     active |-> FALSE, created_at |-> 0, updated_at |-> 0]

RaceStoreInit ==
    /\ project_name = None
    /\ environ = NoEnviron
    /\ WritersIdle
    /\ notes = <<>>
    /\ project_knowledge = <<>>
    /\ project_context = <<>>
    /\ \/ /\ project_instructions = <<>>
          /\ sqlite_sequence = [t \in Tables |-> 0]
       \/ /\ project_instructions = <<InactiveRow>>
          /\ sqlite_sequence = [t \in Tables |-> IF t = "project_instructions" THEN 1 ELSE 0]
    /\ clock = 0
    /\ ret = [op |-> "none"]
    /\ last_add = <<>>
    /\ last_instr = {}
    /\ last_ctx = {}

RaceInit == RaceStoreInit /\ ScriptIdle

\* the write lock of the file is held from the first UPDATE or INSERT of a
\* transaction to its commit
LockHolders == {w \in Writers : writers[w].pc = "written"}

WriteStatementRechecked(db, now, instruction, existing) ==
    IF ExistingActive(db, instruction.section) # {}
    THEN UpdateActive(db, now, instruction)
    ELSE InsertRow(db, "project_instructions", InstructionRow(now, instruction))

\* if existing: UPDATE ... WHERE section = ? AND active = 1, else: INSERT
WriteStatement(db, now, instruction, existing) ==
    IF existing
    THEN UpdateActive(db, now, instruction)
    ELSE InsertRow(db, "project_instructions", InstructionRow(now, instruction))

\* cursor.execute(SELECT id ... WHERE section = ? AND active = 1);
\* existing = cursor.fetchone(): reads the committed rows, opens no transaction
Lookup(w, instruction) ==
    /\ writers[w].pc \in {"idle", "returned", "raised"}
    /\ raceCalls < MaxRaceCalls
    /\ raceCalls' = raceCalls + 1
    /\ writers' = [writers EXCEPT ![w] =
                      [pc |-> "looked", instruction |-> instruction,
                       existing |-> ExistingActive(DB, instruction.section) # {},
                       at |-> clock]]
    /\ UNCHANGED <<project_name, environ, notes, project_knowledge, project_instructions,
                   project_context, sqlite_sequence, clock, ret, last_add, last_instr, last_ctx>>
    /\ UNCHANGED scriptVars

\* cursor.execute(UPDATE or INSERT): begins the transaction, takes the write
\* lock and evaluates CURRENT_TIMESTAMP; the rows stay private until the commit
Write(w) ==
    /\ writers[w].pc = "looked"
    /\ LockHolders = {}
    /\ writers' = [writers EXCEPT ![w].pc = "written", ![w].at = clock]
    /\ UNCHANGED <<project_name, environ, raceCalls, notes, project_knowledge,
                   project_instructions, project_context, sqlite_sequence, clock, ret,
                   last_add, last_instr, last_ctx>>
    /\ UNCHANGED scriptVars

\* another process keeps the write lock longer than the busy timeout:
\* sqlite3.OperationalError, the with-block rolls back and the call raises
LockTimeout(w) ==
    /\ writers[w].pc = "looked"
    /\ LockHolders # {}
    /\ writers' = [writers EXCEPT ![w].pc = "raised"]
    /\ ret' = [op |-> "update_instruction", status |-> "error",
               instruction |-> writers[w].instruction, fault |-> "locked"]
    /\ UNCHANGED <<project_name, environ, raceCalls, notes, project_knowledge,
                   project_instructions, project_context, sqlite_sequence, clock,
                   last_add, last_instr, last_ctx>>
    /\ UNCHANGED scriptVars

\* conn.commit(); return True
Commit(w) ==
    /\ writers[w].pc = "written"
    /\ SetDB(WriteStatement(DB, writers[w].at, writers[w].instruction, writers[w].existing))
    /\ writers' = [writers EXCEPT ![w].pc = "returned"]
    /\ ret' = [op |-> "update_instruction", status |-> "ok",
               instruction |-> writers[w].instruction, fault |-> "none"]
    /\ last_instr' = {e \in last_instr : e.section # writers[w].instruction.section}
                        \cup {writers[w].instruction}
    /\ UNCHANGED <<project_name, environ, raceCalls, clock, last_add, last_ctx>>
    /\ UNCHANGED scriptVars

\* one get_all_instructions call of any process: reads the committed rows
GetAllInstructions ==
    /\ \E value \in get_all_instructions(DB) :
          ret' = [op |-> "get_all_instructions", value |-> value]
    /\ UNCHANGED <<project_name, environ, writers, raceCalls, notes, project_knowledge,
                   project_instructions, project_context, sqlite_sequence, clock,
                   last_add, last_instr, last_ctx>>
    /\ UNCHANGED scriptVars

\* the clock stands still: no property of these processes depends on timestamps
RaceNext ==
    \/ \E w \in Writers, instruction \in RaceInstructions : Lookup(w, instruction)
    \/ \E w \in Writers : Write(w)
    \/ \E w \in Writers : LockTimeout(w)
    \/ \E w \in Writers : Commit(w)
    \/ GetAllInstructions

SpecRace == RaceInit /\ [][RaceNext]_vars

(***************************************************************************)
(* Marker splice: properties                                               *)
(***************************************************************************)
\* Reading of "the marker pair" used by the properties: the first START
\* marker and the nearest END marker after it.
HasPair(doc) == \E p, q \in 1..Len(doc) : p < q /\ doc[p] = START /\ doc[q] = END
PairStart(doc) == IndexFrom(doc, START, 1)
PairEnd(doc) == IndexFrom(doc, END, PairStart(doc) + 1)
TextBefore(doc) == SubSeq(doc, 1, PairStart(doc) - 1)
TextAfter(doc) == SubSeq(doc, PairEnd(doc) + 1, Len(doc))
\* the last START marker before the END marker of the pair
InnerStart(doc) ==
    CHOOSE s \in PairStart(doc)..(PairEnd(doc) - 1) :
        doc[s] = START /\ \A t \in (s + 1)..(PairEnd(doc) - 1) : doc[t] # START
NestedStart(doc) == HasPair(doc) /\ InnerStart(doc) # PairStart(doc)

\* C5: splicing the same block into the already-spliced document gives the
\* result of the first splice: the second successful run leaves the remote
\* prompt exactly as it found it.
C5_SpliceIdempotent ==
    okRuns = 2 => remotePrompt = fetchedPrompt

\* C6: the splice leaves everything outside the replaced marker span
\* unchanged: on a hit the result still starts with the text before the START
\* marker followed by START and still ends with END followed by the text after
\* the END marker; on a miss the input document is a prefix of the result.
C6_FramePreserved ==
    exitCode = 0 =>
        IF HasPair(fetchedPrompt)
        THEN /\ IsPrefix(TextBefore(fetchedPrompt) \o <<START>>, remotePrompt)
             /\ IsSuffix(<<END>> \o TextAfter(fetchedPrompt), remotePrompt)
             /\ Len(remotePrompt) >= Len(TextBefore(fetchedPrompt)) + Len(TextAfter(fetchedPrompt)) + 2
        ELSE IsPrefix(fetchedPrompt, remotePrompt) /\ Len(remotePrompt) > Len(fetchedPrompt)

C6_Witness ==
    /\ exitCode = 0
    /\ HasPair(fetchedPrompt)
    /\ TextBefore(fetchedPrompt) # <<>>
    /\ TextAfter(fetchedPrompt) # <<>>
    /\ remotePrompt # fetchedPrompt

\* C7 (as stated): after a splice that found no START...END pair the result
\* holds exactly one START and exactly one END marker, as its final part, after
\* the unchanged document.
C7_MissExactlyOnePair ==
    (exitCode = 0 /\ ~HasPair(fetchedPrompt)) =>
        /\ remotePrompt = fetchedPrompt \o <<NL, NL>> \o newMemorySection(memoryContext)
        /\ Count(remotePrompt, START) = 1
        /\ Count(remotePrompt, END) = 1

\* C7 (amended): after a splice that found no START...END pair the result is
\* the unchanged document followed by two newlines and START, newline, block,
\* newline, END as its final part; it holds one START and one END marker more
\* than the document and the block together, hence exactly one of each when
\* neither of them holds a marker.
C7_MissAppends ==
    (exitCode = 0 /\ ~HasPair(fetchedPrompt)) =>
        /\ remotePrompt = fetchedPrompt \o <<NL, NL>> \o newMemorySection(memoryContext)
        /\ Count(remotePrompt, START) = Count(fetchedPrompt, START) + Count(memoryContext, START) + 1
        /\ Count(remotePrompt, END) = Count(fetchedPrompt, END) + Count(memoryContext, END) + 1

C7_Witness ==
    /\ exitCode = 0
    /\ ~HasPair(fetchedPrompt)
    /\ fetchedPrompt # <<>>
    /\ Count(fetchedPrompt, START) + Count(memoryContext, START) = 0
    /\ Count(fetchedPrompt, END) + Count(memoryContext, END) = 0
    /\ Count(remotePrompt, START) = 1
    /\ Count(remotePrompt, END) = 1

\* C8: on a hit the span from the START marker through the END marker is
\* replaced by exactly START, newline, the block verbatim, newline, END.
C8_HitReplacedVerbatim ==
    (exitCode = 0 /\ HasPair(fetchedPrompt)) =>
        remotePrompt = TextBefore(fetchedPrompt) \o newMemorySection(memoryContext) \o TextAfter(fetchedPrompt)

\* C9 (as stated): the replaced span starts at the START marker nearest to
\* the END marker, so in START a START b END the text up to the second START
\* stays in front of the new section.
C9_NestedStartKept ==
    (exitCode = 0 /\ NestedStart(fetchedPrompt)) =>
        IsPrefix(SubSeq(fetchedPrompt, 1, InnerStart(fetchedPrompt) - 1) \o <<START, NL>>, remotePrompt)

\* C9 (amended): the replaced span runs from the first START marker to the
\* nearest END marker after it, whether or not another START marker lies in
\* between: for START a START b END the result is the text before the first
\* START, the replacement, and the text after that END.
C9_SpanFirstStartToNearestEnd ==
    (exitCode = 0 /\ NestedStart(fetchedPrompt)) =>
        remotePrompt =
            TextBefore(fetchedPrompt)
            \o GetSubstitution(SubSeq(fetchedPrompt, PairStart(fetchedPrompt), PairEnd(fetchedPrompt)),
                               TextBefore(fetchedPrompt), TextAfter(fetchedPrompt),
                               newMemorySection(memoryContext))
            \o TextAfter(fetchedPrompt)

C9_Witness ==
    /\ exitCode = 0
    /\ okRuns = 1
    /\ fetchedPrompt = <<START, "x", START, END>>
    /\ NestedStart(fetchedPrompt)
    /\ Count(remotePrompt, START) = 1
    /\ Count(remotePrompt, "x") = 0

(***************************************************************************)
(* Store: properties                                                       *)
(***************************************************************************)
\* each notes row is the projection of the project_knowledge row written
\* by the same call
NotesPaired ==
    /\ Len(notes) = Len(project_knowledge)
    /\ \A i \in 1..Len(notes) :
          /\ notes[i].title = project_prefix(project_name) \o project_knowledge[i].title
          /\ notes[i].created_at = project_knowledge[i].created_at

\* C1: add_knowledge is atomic over its two inserts: no notes row is ever
\* without the project_knowledge row of the same call, and a call that fails
\* leaves notes and project_knowledge exactly as they were before the call.
C1_AddKnowledgeAtomic ==
    [][ /\ NotesPaired'
        /\ (ret'.op = "add_knowledge" /\ ret'.status = "error")
              => (notes' = notes /\ project_knowledge' = project_knowledge) ]_vars

C1_Witness ==
    /\ ret.op = "add_knowledge"
    /\ ret.status = "error"
    /\ ret.fault = "none"
    /\ Len(notes) = 1
    /\ Len(project_knowledge) = 1

\* C2: without a storage fault add_knowledge succeeds exactly when the
\* importance is in 1..5, the row it stores carries that importance, and no
\* stored project_knowledge row has an importance outside 1..5.
C2_ImportanceRange ==
    /\ \A i \in 1..Len(project_knowledge) : project_knowledge[i].importance \in 1..5
    /\ (ret.op = "add_knowledge" /\ ret.fault = "none")
          => (ret.status = "ok" <=> ret.entry.importance \in 1..5)
    /\ (ret.op = "add_knowledge" /\ ret.status = "ok")
          => project_knowledge[Len(project_knowledge)].importance = ret.entry.importance

C2_Witness ==
    /\ ret.op = "add_knowledge"
    /\ ret.status = "ok"
    /\ ret.entry.importance = 5
    /\ Len(project_knowledge) = 2
    /\ project_knowledge[1].importance = 1
    /\ project_knowledge[2].importance = 5

ActiveRowsOf(section) ==
    {r \in RowSet(project_instructions) : r.section = section /\ r.active}

\* C3: starting from an empty table, after any sequence of update_instruction
\* calls made one at a time, every section that was updated has exactly one
\* active row, holding the content and priority of the most recent call for
\* that section that returned.
C3_OneActiveRowPerSection ==
    \A e \in last_instr :
        /\ Cardinality(ActiveRowsOf(e.section)) = 1
        /\ \A r \in ActiveRowsOf(e.section) :
              r.content = e.content /\ r.priority = e.priority

C3_Witness ==
    /\ \E r \in ActiveRowsOf("guidelines") :
          r.content = "v2" /\ r.priority = 5 /\ r.updated_at > r.created_at
    /\ Len(project_instructions) = 1
    /\ ret.op = "update_instruction"
    /\ ret.status = "ok"
    /\ ret.instruction = [section |-> "guidelines", content |-> "v2", priority |-> 5]

\* C4: the context table holds at most one row per context_key, and
\* get_context maps each key to the value and description of the most recent
\* update_context call for that key that returned (a description left out is
\* stored as none).
C4_ContextUpsert ==
    /\ \A i, j \in 1..Len(project_context) :
          project_context[i].context_key = project_context[j].context_key => i = j
    /\ ret.op = "get_context" =>
          /\ DOMAIN ret.value = {e.key : e \in last_ctx}
          /\ \A e \in last_ctx :
                /\ ret.value[e.key].value = e.value
                /\ ret.value[e.key].description = e.description

C4_Witness ==
    /\ ret.op = "get_context"
    /\ sqlite_sequence["project_context"] = 3
    /\ Len(project_context) = 2
    /\ [key |-> "current_focus", value |-> "v2", description |-> None] \in last_ctx
    /\ ret.value["current_focus"].value = "v2"
    /\ ret.value["current_focus"].description = None
    /\ project_context[2].context_key = "current_focus"

\* C10: on an empty store, add_knowledge(title, content, category, tags,
\* importance) followed by search_knowledge(content) returns exactly one
\* entry, whose title, content, category, tags (as an ordered list) and
\* importance are the values that were added.
C10_AddSearchRoundTrip ==
    (/\ ret.op = "search_knowledge"
     /\ Len(project_knowledge) = 1
     /\ last_add # <<>>
     /\ ret.query = last_add[1].content
     /\ ret.category = None)
    => /\ Len(ret.value) = 1
       /\ ret.value[1].title = last_add[1].title
       /\ ret.value[1].content = last_add[1].content
       /\ ret.value[1].category = last_add[1].category
       /\ ret.value[1].tags = last_add[1].tags
       /\ ret.value[1].importance = last_add[1].importance

C10_Witness ==
    /\ ret.op = "search_knowledge"
    /\ Len(project_knowledge) = 1
    /\ ret.query = <<"C">>
    /\ ret.category = None
    /\ last_add = <<WithImportance(Sample(<<"T">>), 3)>>
    /\ Len(ret.value) = 1
    /\ ret.value[1].tags = << <<"a">>, <<"b">> >>
    /\ project_name = "P"

\* text contains q as a substring, letters compared without regard to case
ContainsFold(text, q) ==
    \E i \in 0..(Len(text) - Len(q)) :
        \A k \in 1..Len(q) : ToLower(text[i + k]) = ToLower(q[k])

ReturnedIds(list) == {list[i].id : i \in 1..Len(list)}

\* C11: search_knowledge(query, category) returns exactly the stored entries
\* that hold query as a substring of their content, title or serialized tags
\* (here even in the lenient reading that ignores case), restricted to the
\* given category when one is supplied; none is returned twice.
C11_SearchExactSubstring ==
    ret.op = "search_knowledge" =>
        /\ ReturnedIds(ret.value) =
              {r.id : r \in {x \in RowSet(project_knowledge) :
                  /\ \/ ContainsFold(x.content, ret.query)
                     \/ ContainsFold(x.title, ret.query)
                     \/ ContainsFold(x.tags, ret.query)
                  /\ ret.category # None => x.category = ret.category}}
        /\ Cardinality(ReturnedIds(ret.value)) = Len(ret.value)

IsKnowledgeList == ret.op \in {"get_all_knowledge", "search_knowledge"}

\* C12 (as stated): the lists of get_all_knowledge and search_knowledge are
\* sorted by importance descending and, among entries of equal importance,
\* the more recently added entry (the one with the larger id) comes first.
C12_MoreRecentlyAddedFirst ==
    IsKnowledgeList =>
        \A i, j \in 1..Len(ret.value) : i < j =>
            \/ ret.value[i].importance > ret.value[j].importance
            \/ /\ ret.value[i].importance = ret.value[j].importance
               /\ ret.value[i].id > ret.value[j].id

\* C12 (amended): the lists of get_all_knowledge and search_knowledge are
\* sorted by importance descending and, among entries of equal importance, by
\* created_at descending; created_at counts whole seconds, and entries of equal
\* importance written within the same second come in no particular order.
C12_SortedByImportanceThenCreatedAt ==
    IsKnowledgeList =>
        \A i, j \in 1..Len(ret.value) : i < j =>
            \/ ret.value[i].importance > ret.value[j].importance
            \/ /\ ret.value[i].importance = ret.value[j].importance
               /\ ret.value[i].created_at >= ret.value[j].created_at

C12_Witness ==
    /\ ret.op = "get_all_knowledge"
    /\ Len(ret.value) = 2
    /\ ret.value[1].importance = ret.value[2].importance
    /\ ret.value[1].created_at > ret.value[2].created_at
    /\ ret.value[1].id = 2

\* C14: a successful add_knowledge call adds exactly one row to notes and one
\* to project_knowledge, keeps the rows that were there, and returns the id of
\* the notes row it inserted; that id is larger than the id of every earlier
\* notes row, hence than every id returned before.
C14_AddReturnsFreshNoteId ==
    [][ (ret' # ret /\ ret'.op = "add_knowledge" /\ ret'.status = "ok") =>
            /\ Len(notes') = Len(notes) + 1
            /\ Len(project_knowledge') = Len(project_knowledge) + 1
            /\ SubSeq(notes', 1, Len(notes)) = notes
            /\ SubSeq(project_knowledge', 1, Len(project_knowledge)) = project_knowledge
            /\ ret'.value = notes'[Len(notes')].id
            /\ notes'[Len(notes')].title = project_prefix(project_name) \o ret'.entry.title
            /\ \A i \in 1..Len(notes) : notes[i].id < ret'.value ]_vars

C14_Witness ==
    /\ ret.op = "add_knowledge"
    /\ ret.status = "ok"
    /\ ret.value = 2
    /\ Len(notes) = 2
    /\ notes[1].id = 1
    /\ notes[2].id = 2

\* C15: the notes row and the project_knowledge row written by one
\* add_knowledge call carry the same title, the title passed in, whether or
\* not a project name is configured.
C15_SameTitleInBothTables ==
    (ret.op = "add_knowledge" /\ ret.status = "ok") =>
        /\ notes[Len(notes)].title = ret.entry.title
        /\ project_knowledge[Len(project_knowledge)].title = ret.entry.title

\* get_all_knowledge has answered with three entries, and the three oldest
\* rows were added with importance 5, 3 and 5 in that order
ThreeAdded535 ==
    /\ ret.op = "get_all_knowledge"
    /\ Len(ret.value) = 3
    /\ Len(project_knowledge) >= 3
    /\ project_knowledge[1].importance = 5
    /\ project_knowledge[2].importance = 3
    /\ project_knowledge[3].importance = 5

\* C13 (as stated): after adds with importance 5, 3, 5 get_all_knowledge
\* returns the first-added, then the third-added, then the second-added entry.
C13_FirstThirdSecond ==
    ThreeAdded535 =>
        <<ret.value[1].id, ret.value[2].id, ret.value[3].id>> = <<1, 3, 2>>

\* C13 (amended): after adds with importance 5, 3, 5 get_all_knowledge returns
\* the second-added entry last; before it come the first-added and the
\* third-added entry, the third-added one first whenever its created_at is
\* later than that of the first-added one.
C13_ThirdFirstSecondByTimestamp ==
    ThreeAdded535 =>
        /\ ret.value[3].id = 2
        /\ {ret.value[1].id, ret.value[2].id} = {1, 3}
        /\ project_knowledge[3].created_at > project_knowledge[1].created_at
              => ret.value[1].id = 3

C13_Witness ==
    /\ ThreeAdded535
    /\ project_knowledge[3].created_at > project_knowledge[1].created_at
    /\ <<ret.value[1].id, ret.value[2].id, ret.value[3].id>> = <<3, 1, 2>>

\* C18: update_instruction with a priority outside 1..5 ends in an error and
\* leaves project_instructions as it was, whether the section has no active
\* row (none is inserted) or has one (content, priority and updated_at stay);
\* no stored instruction row ever has a priority outside 1..5.
C18_PriorityOutOfRangeRejected ==
    [][ /\ \A i \in 1..Len(project_instructions') :
              project_instructions'[i].priority \in 1..5
        /\ (ret'.op = "update_instruction" /\ ret'.instruction.priority \notin 1..5)
              => /\ ret'.status = "error"
                 /\ project_instructions' = project_instructions
                 /\ sqlite_sequence' = sqlite_sequence ]_vars

C18_Witness ==
    /\ ret.op = "update_instruction"
    /\ ret.status = "error"
    /\ ret.fault = "none"
    /\ ret.instruction = [section |-> "guidelines", content |-> "v2", priority |-> 6]
    /\ \E r \in ActiveRowsOf("guidelines") : r.content = "v1" /\ r.priority = 3
    /\ ActiveRowsOf("constraints") = {}
    /\ clock = 1

(***************************************************************************)
(* Tool calls: properties                                                  *)
(***************************************************************************)
TablesUnchanged ==
    /\ notes' = notes
    /\ project_knowledge' = project_knowledge
    /\ project_instructions' = project_instructions
    /\ project_context' = project_context

\* C16: a tool call whose name is not one of the eight declared tools fails
\* with an error, it does not come back as a text result, and it leaves the
\* four tables unchanged.
C16_UnknownToolFails ==
    [][ (ret'.op = "call_tool" /\ ret'.name \notin DeclaredTools)
            => (ret'.status = "error" /\ TablesUnchanged) ]_vars

ToolsWithRequired == {name \in DeclaredTools : RequiredArguments(name) # {}}

LacksRequired(r) ==
    /\ r.op = "call_tool"
    /\ r.name \in ToolsWithRequired
    /\ RequiredArguments(r.name) \ DOMAIN r.arguments # {}

\* C17: a call of one of the five tools with required arguments that lacks
\* one of them fails before any store method is invoked and leaves the four
\* tables unchanged.
C17_MissingArgumentFailsBeforeStore ==
    [][ LacksRequired(ret')
            => (ret'.status = "error" /\ ret'.calls = <<>> /\ TablesUnchanged) ]_vars

SuggestReturned ==
    /\ ret.op = "call_tool"
    /\ ret.name = "suggest_project_improvements"
    /\ ret.status = "ok"

StoredCategories == {project_knowledge[i].category : i \in 1..Len(project_knowledge)}
ActiveSections == {r.section : r \in {x \in RowSet(project_instructions) : x.active}}
SummaryMentions(kw) == ContainsFold(ret.arguments.conversation_summary, kw)
LowImportanceCount == Cardinality({i \in 1..Len(project_knowledge) : project_knowledge[i].importance < 3})

\* the five rules as the tool evaluates them
Rule1Triggers == "technical" \notin StoredCategories /\ SummaryMentions(KwCode)
Rule2Triggers == "preferences" \notin StoredCategories /\ SummaryMentions(KwPrefer)
Rule3Triggers ==
    "constraints" \notin ActiveSections /\ (SummaryMentions(KwLimit) \/ SummaryMentions(KwConstraint))
Rule4Triggers == "guidelines" \notin ActiveSections /\ Len(project_knowledge) > 5
Rule5Triggers == Len(project_knowledge) > 10 /\ LowImportanceCount > 5
NoRuleTriggers ==
    ~(Rule1Triggers \/ Rule2Triggers \/ Rule3Triggers \/ Rule4Triggers \/ Rule5Triggers)

C20_PreferencesSuggested ==
    (/\ SuggestReturned
     /\ "preferences" \notin StoredCategories
     /\ InStr(KwPrefer, ret.arguments.conversation_summary))
    => Count(ret.text, PreferencesSuggestion) = 1

C20_Witness ==
    /\ SuggestReturned
    /\ project_knowledge = <<>>
    /\ ret.arguments.conversation_summary
          = <<"I", " ", "p", "r", "e", "f", "e", "r", " ", "d", "a", "r", "k", " ", "m", "o", "d", "e">>
    /\ Count(ret.text, PreferencesSuggestion) = 1
    /\ Count(ret.text, WellOrganized) = 0

\* C21: whenever no active instruction section is named "guidelines" and at
\* least one knowledge entry is stored, the text of the suggestion tool holds
\* the suggestion to add guideline instructions, for every count from 1 up.
C21_GuidelinesSuggestedFromOne ==
    (/\ SuggestReturned
     /\ "guidelines" \notin ActiveSections
     /\ Len(project_knowledge) >= 1)
    => Count(ret.text, GuidelinesSuggestion) = 1

(***************************************************************************)
(* The staged run: properties                                              *)
(***************************************************************************)
\* formatMemoryContext returned in this run
Formatted == pc \in {"formatted", "fetched", "exited"} /\ contextText # NoText

importantMemories == Lists(gotSummary).importantMemories

\* the item lines of the block: each starts after an item lead and ends before
\* the next one, the last one before the usage hint
ItemLeadPositions == {i \in 1..Len(contextText) : contextText[i] = ItemLead}
ItemLeadPosition(k) ==
    CHOOSE p \in ItemLeadPositions : Cardinality({q \in ItemLeadPositions : q < p}) = k - 1
ImportantItem(k) ==
    SubSeq(contextText, ItemLeadPosition(k) + 1,
           IF k = Cardinality(ItemLeadPositions)
           THEN Len(contextText) - 1
           ELSE ItemLeadPosition(k + 1) - 1)

\* number of characters of an item: the ellipsis is three characters, the
\* placeholder ten, every other token one
ItemChars(item) == Len(item) + 2 * Count(item, Ellipsis) + 9 * Count(item, NoContent)

\* C22 (as stated): each important-memory line shows the content unchanged
\* when its length is at most 100 characters, and the first 100 characters
\* followed by "..." when it is longer.
C22_UnchangedUpTo100 ==
    Formatted =>
        /\ Cardinality(ItemLeadPositions) = Len(importantMemories)
        /\ \A k \in 1..Len(importantMemories) :
             LET content == importantMemories[k].content
             IN /\ Len(content) <= 100 => ImportantItem(k) = content
                /\ Len(content) > 100 =>
                       ImportantItem(k) = SubSeq(content, 1, 100) \o <<Ellipsis>>

\* C22 (amended): each important-memory line shows the content unchanged when
\* its length is between 1 and 100 characters, the placeholder "No content"
\* when the content is empty, and the first 100 characters followed by "..."
\* when it is longer than 100 (a content of 150 characters gives an item of
\* 103 characters).
C22_TruncatedAbove100 ==
    Formatted =>
        /\ Cardinality(ItemLeadPositions) = Len(importantMemories)
        /\ \A k \in 1..Len(importantMemories) :
             LET content == importantMemories[k].content
             IN /\ Len(content) \in 1..100 => ImportantItem(k) = content
                /\ Len(content) = 0 => ImportantItem(k) = <<NoContent>>
                /\ Len(content) > 100 =>
                       /\ ImportantItem(k) = SubSeq(content, 1, 100) \o <<Ellipsis>>
                       /\ ItemChars(ImportantItem(k)) = 103

C22_Witness ==
    /\ Formatted
    /\ importantMemories = <<Memory(Chars(150), <<>>)>>
    /\ ImportantItem(1) = SubSeq(Chars(150), 1, 100) \o <<Ellipsis>>
    /\ ImportantItem(1)[100] = "y"
    /\ ItemChars(ImportantItem(1)) = 103

\* the recall backend failed in this run: getMemorySummary logged an error, or
\* returned something that is no list
BackendErrorLogged ==
    \E i \in 1..Len(stderr) :
        stderr[i] \in { <<"Error querying MCP memory service">>,
                        <<"Error executing or parsing MCP memory service via CLI">> }
BackendFailed ==
    \/ BackendErrorLogged
    \/ gotSummary.recentMemories.type # "array"
    \/ gotSummary.importantMemories.type # "array"

\* C23: in memory-context-script.js a failure of the recall backend (a failing
\* request or malformed data) never aborts the run: at the exit both lists of
\* the summary are lists, a context block was generated from them, and the
\* update of the project was attempted (a request was sent to the project API).
C23_BackendFailureNeverAborts ==
    (variant = "api" /\ pc = "exited" /\ BackendFailed) =>
        /\ gotSummary.recentMemories.type = "array"
        /\ gotSummary.importantMemories.type = "array"
        /\ Formatted
        /\ sent # <<>>

\* the block of this run is on the standard output or in the output file
BlockPrinted ==
    \E i \in 1..Len(stdout) :
        stdout[i] \in {contextText, newMemorySection(contextText)}
BlockPreserved == file = newMemorySection(contextText)

\* C24: when a block was generated and the splice target could then not be
\* read or written (the run exits with code 1 after formatMemoryContext
\* returned), the error is reported and the generated block is printed or
\* preserved in the output file.
C24_BlockAvailableAfterFailedSplice ==
    (pc = "exited" /\ Formatted /\ exitCode = 1) =>
        /\ stderr # <<>>
        /\ BlockPrinted \/ BlockPreserved

EndpointOutcomes == [1..NumEndpoints -> {"ok", "nodata", "fails"}]

\* C28: in the project-update flow a PATCH is sent only after the GET of the
\* same run has succeeded (and it is the only request after that GET); when
\* the GET fails, no PATCH is sent in that run, the remote system prompt stays
\* as it was and the script ends with exit code 1; the remote system prompt
\* changes only in the step that sends the PATCH; the script ends with exit
\* code 0 only when the PATCH succeeded.  The endpoint loop of the file-output
\* variant sends its PATCH only after one of its GETs succeeded, to that
\* endpoint, and returns true only when the PATCH succeeded.
C28_PatchOnlyAfterGet ==
    [][ /\ (Len(sent') > Len(sent) /\ sent'[Len(sent')] = "PATCH") =>
              /\ pc = "fetched"
              /\ sent = <<"GET">>
              /\ fetchedPrompt = remotePrompt
        /\ (variant = "api" /\ pc = "formatted" /\ pc' = "exited") =>
              /\ sent' = <<"GET">>
              /\ remotePrompt' = remotePrompt
              /\ exitCode' = 1
        /\ (pc' = "exited" /\ sent' = <<"GET">>) => exitCode' = 1
        /\ remotePrompt' # remotePrompt => sent' = <<"GET", "PATCH">> /\ sent = <<"GET">>
        /\ (variant = "api" /\ exitCode' = 0) =>
              /\ sent' = <<"GET", "PATCH">>
              /\ pc' = "exited"
              /\ exitCode = 0 \/
                    /\ okRuns' = okRuns + 1
                    /\ remotePrompt' = SpliceSystemPrompt(fetchedPrompt, contextText)
        /\ (pc = "formatted" /\ pc' = "fetched") =>
              LET spliced == SpliceSystemPrompt(remotePrompt, contextText)
              IN \A outcomes \in EndpointOutcomes, patchOk \in BOOLEAN :
                   LET r == updateProjectInstructionsEndpoints(outcomes, patchOk,
                                                               remotePrompt, contextText)
                       n == Len(r.sent)
                   IN /\ (\E i \in 1..n : r.sent[i][1] = "PATCH") =>
                            /\ r.sent[n][1] = "PATCH"
                            /\ n >= 2
                            /\ r.sent[n - 1] = <<"GET", r.sent[n][2]>>
                            /\ outcomes[r.sent[n][2]] = "ok"
                            /\ \A i \in 1..(n - 1) : r.sent[i][1] = "GET"
                      /\ (\A i \in 1..NumEndpoints : outcomes[i] # "ok") =>
                            /\ \A i \in 1..n : r.sent[i][1] = "GET"
                            /\ r.system_prompt = remotePrompt
                            /\ ~r.returned
                      /\ r.returned => patchOk /\ r.system_prompt = spliced
                      /\ r.system_prompt # remotePrompt => r.returned
      ]_vars

\* a second run sends GET and PATCH and exits with code 0 after a first run
\* that failed
C28_Witness ==
    /\ variant = "api"
    /\ runs = 2
    /\ okRuns = 1
    /\ pc = "exited"
    /\ sent = <<"GET", "PATCH">>
    /\ exitCode = 0
    /\ remotePrompt = SpliceSystemPrompt(fetchedPrompt, contextText)

\* C30: in CLI mode of the file-output variant, once getMemorySummaryCli has
\* returned after spawning the memory server, that server process is not
\* running any more (it was killed, or had ended by itself), on every path,
\* the ones that return the empty fallback included.
C30_ServerKilledOnReturn ==
    (variant = "file" /\ actualMode = "cli" /\ pc # "main" /\ serverProcess # "none")
        => serverProcess \in {"killed", "gone"}

(***************************************************************************)
(* Server processes sharing one database file: properties                  *)
(***************************************************************************)
ActiveIn(rows, section) == {r \in RowSet(rows) : r.section = section /\ r.active}

\* C25: the list get_all_instructions returns holds exactly the rows with
\* active = true, each once and with its own fields, sorted by priority
\* descending and, among equal priorities, by section name ascending.
C25_ActiveSortedByPriorityThenSection ==
    ret.op = "get_all_instructions" =>
        LET value  == ret.value
            active == {r \in RowSet(project_instructions) : r.active}
        IN /\ Len(value) = Cardinality(active)
           /\ {value[i].id : i \in 1..Len(value)} = {r.id : r \in active}
           /\ \A i \in 1..Len(value) :
                \E r \in active :
                   /\ value[i].id = r.id
                   /\ value[i].section = r.section
                   /\ value[i].content = r.content
                   /\ value[i].priority = r.priority
           /\ \A i, j \in 1..Len(value) :
                i < j =>
                   \/ value[i].priority > value[j].priority
                   \/ /\ value[i].priority = value[j].priority
                      /\ SectionRank(value[i].section) <= SectionRank(value[j].section)

\* three active rows and an inactive one: two rows of priority 3 in section
\* order, then a row of priority 1
C25_Witness ==
    /\ ret.op = "get_all_instructions"
    /\ Len(project_instructions) = 4
    /\ project_instructions[1] = InactiveRow
    /\ Len(ret.value) = 3
    /\ ret.value[1].priority = 3 /\ ret.value[1].section = "constraints"
    /\ ret.value[2].priority = 3 /\ ret.value[2].section = "guidelines"
    /\ ret.value[3].priority = 1

\* C26: when two writers call update_instruction for the same section and
\* both lookups find no active row (both look up before either inserts), both
\* calls insert: after both have returned, the table holds at least two active
\* rows of that section.  Nothing prevents that interleaving (the witness).
C26_BothLookupsBeforeInsertGiveTwoRows ==
    \A section \in Sections :
        (\A w \in Writers :
            /\ writers[w].pc = "returned"
            /\ writers[w].instruction.section = section
            /\ ~writers[w].existing)
        => Cardinality(ActiveRowsOf(section)) >= 2

C26_Witness ==
    /\ raceCalls = 2
    /\ \A w \in Writers :
          /\ writers[w].pc = "returned"
          /\ writers[w].instruction.section = "guidelines"
          /\ ~writers[w].existing
    /\ Len(project_instructions) = 2
    /\ Cardinality(ActiveRowsOf("guidelines")) = 2

\* C29: no step removes a row or changes its id, section or active flag, so
\* the number of active rows of a section never decreases; a call whose
\* lookup found an active row sets content and priority of every active row
\* of its section and inserts none; a call whose lookup found none inserts
\* exactly one active row and changes no other.
C29_NeverRemovesOrDeactivates ==
    [][ /\ Len(project_instructions') >= Len(project_instructions)
        /\ \A i \in 1..Len(project_instructions) :
              /\ project_instructions'[i].id = project_instructions[i].id
              /\ project_instructions'[i].section = project_instructions[i].section
              /\ project_instructions'[i].active = project_instructions[i].active
        /\ \A section \in Sections :
              Cardinality(ActiveIn(project_instructions', section))
                 >= Cardinality(ActiveIn(project_instructions, section))
        /\ \A w \in Writers :
              (writers[w].pc = "written" /\ writers'[w].pc = "returned") =>
                 LET instruction == writers[w].instruction
                     n == Len(project_instructions)
                 IN IF writers[w].existing
                    THEN /\ ActiveIn(project_instructions, instruction.section) # {}
                         /\ Len(project_instructions') = n
                         /\ \A i \in 1..n :
                               IF /\ project_instructions[i].section = instruction.section
                                  /\ project_instructions[i].active
                               THEN /\ project_instructions'[i].content = instruction.content
                                    /\ project_instructions'[i].priority = instruction.priority
                               ELSE project_instructions'[i] = project_instructions[i]
                    ELSE /\ Len(project_instructions') = n + 1
                         /\ SubSeq(project_instructions', 1, n) = project_instructions
                         /\ project_instructions'[n + 1].section = instruction.section
                         /\ project_instructions'[n + 1].content = instruction.content
                         /\ project_instructions'[n + 1].priority = instruction.priority
                         /\ project_instructions'[n + 1].active
      ]_vars

\* two active rows of one section, one of them inserted as v1 with priority 1
\* by the other writer, both set to v2 with priority 3 by one later call
C29_Witness ==
    /\ writers["w2"].pc = "returned"
    /\ writers["w2"].instruction = [section |-> "guidelines", content |-> "v1", priority |-> 1]
    /\ ~writers["w2"].existing
    /\ writers["w1"].pc = "returned"
    /\ writers["w1"].instruction = [section |-> "guidelines", content |-> "v2", priority |-> 3]
    /\ writers["w1"].existing
    /\ Cardinality(ActiveRowsOf("guidelines")) = 2
    /\ \A r \in ActiveRowsOf("guidelines") : r.content = "v2" /\ r.priority = 3

(***************************************************************************)
(* Tool calls: frame properties                                            *)
(***************************************************************************)
ReadOnlyTools ==
    {"search_project_knowledge", "get_project_overview", "get_claude_desktop_notes",
     "check_project_context", "suggest_project_improvements"}

\* C27: in every step the notes rows and the project_knowledge rows that
\* existed before still exist, in place and with unchanged fields; a step adds
\* at most one row to each of the two tables, with an id no earlier row has
\* (so also when the title is already used); and a call of a read-only tool
\* changes no table and no AUTOINCREMENT counter.
C27_NotesAndKnowledgeAppendOnly ==
    [][ /\ IsPrefix(notes, notes')
        /\ IsPrefix(project_knowledge, project_knowledge')
        /\ Len(notes') <= Len(notes) + 1
        /\ Len(project_knowledge') <= Len(project_knowledge) + 1
        /\ Len(project_knowledge') > Len(project_knowledge) =>
              \A i \in 1..Len(project_knowledge) :
                 project_knowledge'[Len(project_knowledge')].id # project_knowledge[i].id
        /\ Len(notes') > Len(notes) =>
              \A i \in 1..Len(notes) : notes'[Len(notes')].id # notes[i].id
        /\ (ret'.op = "call_tool" /\ ret'.name \in ReadOnlyTools) =>
              /\ TablesUnchanged
              /\ sqlite_sequence' = sqlite_sequence
      ]_vars

\* two entries added under one title are two rows in both tables, and a
\* read-only tool was called after them
C27_Witness ==
    /\ Len(project_knowledge) = 2
    /\ project_knowledge[1].title = project_knowledge[2].title
    /\ project_knowledge[1].id # project_knowledge[2].id
    /\ project_knowledge[1].category # project_knowledge[2].category
    /\ Len(notes) = 2
    /\ notes[1].id # notes[2].id
    /\ ret.op = "call_tool"
    /\ ret.name = "search_project_knowledge"
    /\ ret.status = "ok"

====
